---- MODULE Spec2Model ----
(***************************************************************************)
(* A model of the quantitative core of NiftyOptionsTool:                   *)
(*   analysis/decision_engine.py     DecisionEngine                        *)
(*   analysis/strategy_builder_v2.py OptionLeg, Strategy                   *)
(*   analysis/position_sizer.py      PositionSizer                         *)
(*   analysis/risk_engine.py         RiskEngine                            *)
(*                                                                         *)
(* Python floats are modelled exactly: a quantity that the code rounds to  *)
(* a fixed number of decimals is an integer in that unit, every other      *)
(* real is a reduced fraction [n |-> numerator, d |-> denominator].        *)
(* A Python dict is a TLA+ function on the keys it holds, so a missing key *)
(* is a key outside DOMAIN and dict.get(key, default) is Get.              *)
(***************************************************************************)
EXTENDS Integers, Sequences, FiniteSets, TLC

VARIABLES
    engine,          \* the DecisionEngine: its configured thresholds
    decision,        \* the last DecisionEngine call: operation, arguments, result
    strat,           \* the Strategy: spot_price, lot_size, legs
    sizer,           \* the PositionSizer: account_size, max_risk_pct, lot_size
    sizing,          \* the last PositionSizer call: operation, arguments, result
    last_simulation, \* RiskEngine.last_simulation
    simulation,      \* the last RiskEngine call: operation, arguments, result
    __debug__,       \* the interpreter's __debug__: False under python -O
    new_leg,         \* the last OptionLeg(...) construction: arguments, outcome
    np_random        \* the state of numpy's global random generator

vars ==
    <<engine, decision, strat, sizer, sizing, last_simulation, simulation,
      __debug__, new_leg, np_random>>

(***************************************************************************)
(* Python values                                                           *)
(***************************************************************************)

\* Python's None, kept apart from every dict.
NoneVal == [None |-> TRUE]

\* The empty dict {}.
EmptyDict == [k \in {} |-> 0]

\* dict.get(key, default)
Get(d, key, default) == IF key \in DOMAIN d THEN d[key] ELSE default

\* bool(x) for an Optional[dict]: None and {} are falsy.
Truthy(d) == d /= NoneVal /\ DOMAIN d /= {}

\* No call has been made yet.
NoCall == [op |-> "none"]

Abs(x) == IF x < 0 THEN -x ELSE x

Min(a, b) == IF a <= b THEN a ELSE b

Max(a, b) == IF a >= b THEN a ELSE b

(***************************************************************************)
(* Exact fractions                                                         *)
(***************************************************************************)

RECURSIVE Gcd(_, _)
Gcd(a, b) == IF b = 0 THEN Abs(a) ELSE Gcd(b, a % b)

\* The fraction n/d in lowest terms with a positive denominator.
Frac(n, d) ==
    LET g == Gcd(Abs(n), Abs(d))
        s == IF d < 0 THEN -1 ELSE 1
    IN  [n |-> s * (n \div g), d |-> s * (d \div g)]

FInt(k) == [n |-> k, d |-> 1]

\* a * b, cross-reduced before multiplying.
FMul(a, b) ==
    LET g1 == Gcd(Abs(a.n), b.d)
        g2 == Gcd(Abs(b.n), a.d)
    IN  Frac((a.n \div g1) * (b.n \div g2), (a.d \div g2) * (b.d \div g1))

FAdd(a, b) ==
    LET g == Gcd(a.d, b.d)
    IN  Frac(a.n * (b.d \div g) + b.n * (a.d \div g), (a.d \div g) * b.d)

FNeg(a) == [n |-> -a.n, d |-> a.d]

FSub(a, b) == FAdd(a, FNeg(b))

\* a / b for b /= 0.
FDiv(a, b) == FMul(a, Frac(b.d, b.n))

FLess(a, b) ==
    LET g == Gcd(a.d, b.d)
    IN  a.n * (b.d \div g) < b.n * (a.d \div g)

FLeq(a, b) == ~FLess(b, a)

FMin(a, b) == IF FLeq(a, b) THEN a ELSE b

FMax(a, b) == IF FLeq(a, b) THEN b ELSE a

\* np.clip(x, lo, hi)
FClip(x, lo, hi) == FMin(FMax(x, lo), hi)

\* Python 3 round() of the fraction n/d (d > 0) to an integer: half to even.
RoundHalfEven(n, d) ==
    LET q == n \div d
        r == n % d
    IN  IF 2 * r < d THEN q
        ELSE IF 2 * r > d THEN q + 1
        ELSE IF q % 2 = 0 THEN q ELSE q + 1

\* int(x) of a float: truncation toward zero
Trunc(x) == IF x.n >= 0 THEN x.n \div x.d ELSE -((-x.n) \div x.d)

\* An exception that left the call instead of a returned value.
Escaped(result) == "raised" \in DOMAIN result /\ result.raised /= "none"

(***************************************************************************)
(* DecisionEngine (analysis/decision_engine.py)                            *)
(*                                                                         *)
(* Units: vol_edge_score in 1/1000 (the code rounds it to 3 decimals),     *)
(* expected_value and risk_reward_ratio in 1/100 (round(.., 2)),           *)
(* risk_of_ruin in 1/10000 (round(.., 4)), trade_score in points.          *)
(***************************************************************************)

DefaultMinTradeScore == 60

DefaultMaxRiskOfRuin == 2000

\* DecisionEngine(config): self.min_trade_score and self.max_risk_of_ruin.
DecisionEngineInit(config) ==
    [min_trade_score |-> Get(config, "min_trade_score", DefaultMinTradeScore),
     max_risk_of_ruin |-> Get(config, "max_risk_of_ruin", DefaultMaxRiskOfRuin)]

\* _generate_summary(trade_allowed, confidence, risk_flags)
_generate_summary(trade_allowed, confidence, risk_flags) ==
    IF ~trade_allowed THEN <<"DO NOT TRADE", Len(risk_flags)>>
    ELSE IF confidence >= 75 THEN <<"TRADE RECOMMENDED", confidence>>
    ELSE IF confidence >= 60 THEN <<"TRADE WITH CAUTION", confidence>>
    ELSE <<"MARGINAL TRADE", confidence>>

\* The except branch of generate_trade_decision.
DecisionError ==
    [trade_allowed |-> FALSE,
     confidence |-> 0,
     risk_flags |-> <<"Error in decision generation">>,
     reasoning |-> <<"Error">>,
     summary |-> <<"Cannot make decision due to error", 0>>]

\* abs(vol_edge_score) > 0.15 (line 408)
VolEdgeDetected(vol_edge_score) == Abs(vol_edge_score) > 150

PositiveEV_truthy(ev) == ev /= 0

\* ev > 0 (line 416)
PositiveEV(ev) == ev > 0

\* rr >= 1.5 (line 425)
GoodRiskReward(rr) == rr >= 150

\* score >= self.min_trade_score (line 433)
ScorePasses(self, score) == score >= self.min_trade_score

\* ror > 0.05 (line 443): the literal 0.05, whatever self.max_risk_of_ruin is.
HighRiskOfRuin(self, ror) == ror > 500

TooManyFlags_two(risk_flags) == Len(risk_flags) >= 2

\* len(risk_flags) >= 3 (line 454)
TooManyFlags(risk_flags) == Len(risk_flags) >= 3

\* The body of generate_trade_decision's try block, one check after another.
\* The timestamp field (datetime.now()) is left out: nothing reads it.
generate_trade_decision_body(self, vol_edge, ev_metrics, trade_score, risk_metrics) ==
    LET vol_edge_score == Get(vol_edge, "vol_edge_score", 0)
        volOk == VolEdgeDetected(vol_edge_score)
        reasoning1 == IF volOk THEN <<"vol edge">> ELSE <<"neutral volatility">>
        flags1 == IF volOk THEN <<>> ELSE <<"Low vol edge">>
        ev == Get(ev_metrics, "expected_value", 0)
        evOk == PositiveEV(ev)
        reasoning2 == Append(reasoning1,
                         IF evOk THEN "positive expected value"
                                 ELSE "negative expected value")
        allowed2 == evOk
        flags2 == IF evOk THEN flags1 ELSE Append(flags1, "Negative EV")
        rr == Get(ev_metrics, "risk_reward_ratio", 0)
        rrOk == GoodRiskReward(rr)
        reasoning3 == Append(reasoning2,
                         IF rrOk THEN "good risk-reward" ELSE "low risk-reward")
        flags3 == IF rrOk THEN flags2 ELSE Append(flags2, "Poor R:R")
        score == Get(trade_score, "trade_score", 50)
        scoreOk == ScorePasses(self, score)
        reasoning4 == Append(reasoning3,
                         IF scoreOk THEN "trade score" ELSE "trade score too low")
        allowed4 == allowed2 /\ scoreOk
        flags4 == IF scoreOk THEN flags3 ELSE Append(flags3, "Low trade score")
        checkRuin == Truthy(risk_metrics)
        ror == IF checkRuin THEN Get(risk_metrics, "risk_of_ruin", 0) ELSE 0
        ruinHigh == checkRuin /\ HighRiskOfRuin(self, ror)
        reasoning5 == IF ~checkRuin THEN reasoning4
                      ELSE Append(reasoning4,
                             IF ruinHigh THEN "high risk of ruin"
                                         ELSE "acceptable risk of ruin")
        allowed5 == allowed4 /\ ~ruinHigh
        flags5 == IF ruinHigh THEN Append(flags4, "High risk of ruin") ELSE flags4
        confidence == score
        override == TooManyFlags(flags5)
        allowed6 == allowed5 /\ ~override
        reasoning6 == IF override
                      THEN Append(reasoning5, "multiple risk factors present")
                      ELSE reasoning5
    IN  [trade_allowed |-> allowed6,
         confidence |-> confidence,
         risk_flags |-> flags5,
         reasoning |-> reasoning6,
         summary |-> _generate_summary(allowed6, confidence, flags5)]

\* generate_trade_decision: an argument that is no dict (None) makes .get raise,
\* and the except branch answers.
generate_trade_decision(self, vol_edge, ev_metrics, trade_score, risk_metrics) ==
    IF vol_edge = NoneVal \/ ev_metrics = NoneVal \/ trade_score = NoneVal
    THEN DecisionError
    ELSE generate_trade_decision_body(self, vol_edge, ev_metrics, trade_score,
                                      risk_metrics)

RuinExceedsCeiling_elevated(self, risk_of_ruin) == risk_of_ruin > 1000

\* risk_of_ruin > self.max_risk_of_ruin (line 572)
RuinExceedsCeiling(self, risk_of_ruin) == risk_of_ruin > self.max_risk_of_ruin

\* A directional category requires its own signal (lines 531-551).
DirectionalAligned(strategy_type, signal_type) ==
    \/ strategy_type = "LONG_CALL" /\ signal_type = "CALL_BUY"
    \/ strategy_type = "LONG_PUT" /\ signal_type = "PUT_BUY"

NeutralStrategies == {"IRON_CONDOR", "STRANGLE", "BUTTERFLY"}

\* validate_with_directional_signal(directional_signal, strategy_type,
\* vol_edge_score, risk_of_ruin); signal confidence in points 0..100.
\* The method has no try block: directional_signal.signal on None (line 527)
\* raises AttributeError out of the call.
validate_with_directional_signal(self, directional_signal, strategy_type, vol_edge_score, risk_of_ruin) ==
    IF directional_signal = NoneVal THEN [raised |-> "AttributeError"]
    ELSE
    LET signal_type == directional_signal.signal
        signal_confidence == directional_signal.confidence
        directional == strategy_type \in {"LONG_CALL", "LONG_PUT"}
        neutral == strategy_type \in NeutralStrategies
        aligned == DirectionalAligned(strategy_type, signal_type)
        \* allowed starts True; only a directional category clears it here.
        allowed1 == ~(directional /\ ~aligned)
        reasons1 ==
            IF directional
            THEN IF aligned THEN <<"signal aligns">>
                 ELSE IF signal_type = "NO_SIGNAL" THEN <<"no directional signal">>
                 ELSE <<"signal conflicts">>
            ELSE IF neutral
            THEN IF signal_type = "NO_SIGNAL" THEN <<"neutral market">>
                 ELSE <<"directional signal for neutral strategy">>
            ELSE <<>>
        warnings1 ==
            IF neutral /\ signal_type /= "NO_SIGNAL"
            THEN <<"Consider taking directional trade instead">>
            ELSE <<>>
        confidence1 ==
            IF directional
            THEN IF aligned THEN signal_confidence ELSE 50
            ELSE IF neutral
            THEN IF signal_type = "NO_SIGNAL" THEN 70
                 ELSE Min(50, signal_confidence)
            ELSE 50
        reasons2 ==
            IF vol_edge_score > 150 THEN Append(reasons1, "premium selling edge")
            ELSE IF vol_edge_score < -150 THEN Append(reasons1, "premium buying edge")
            ELSE reasons1
        confidence2 ==
            IF vol_edge_score > 150 THEN Min(100, confidence1 + 10)
            ELSE IF vol_edge_score < -150 THEN Max(0, confidence1 - 5)
            ELSE confidence1
        ruinExceeds == RuinExceedsCeiling(self, risk_of_ruin)
        warnings2 ==
            IF ruinExceeds THEN Append(warnings1, "risk of ruin exceeds max")
            ELSE IF risk_of_ruin > 1000
            THEN Append(warnings1, "risk of ruin is elevated")
            ELSE warnings1
        allowed2 == allowed1 /\ ~ruinExceeds
    IN  [allowed |-> allowed2,
         confidence |-> confidence2,
         reasons |-> reasons2,
         warnings |-> warnings2,
         signal |-> signal_type,
         signal_confidence |-> signal_confidence]

(***************************************************************************)
(* compute_expected_value.  A strategy value that may be a number or the   *)
(* string "Unlimited" is [num |-> TRUE, v |-> number] or Unlimited.        *)
(* Money in rupees, probabilities as fractions.                            *)
(***************************************************************************)

Num(v) == [num |-> TRUE, v |-> v]

Unlimited == [num |-> FALSE, v |-> 0]

\* The largest k with k * k <= x, for 0 <= x.
RECURSIVE ISqrt(_)
ISqrt(x) ==
    IF x < 2 THEN x
    ELSE LET s == 2 * ISqrt(x \div 4)
         IN  IF (s + 1) * (s + 1) > x THEN s ELSE s + 1

\* np.sqrt(days_to_expiry / 30) to three decimals, in 1/1000.
SqrtDays(days_to_expiry) == ISqrt((days_to_expiry * 1000000) \div 30)

\* scipy.stats.norm.cdf, tabulated to five decimals at half-sigma steps:
\* the argument is twice z rounded to an integer; 1/100000 units.
NormCdfHalf(z2) ==
    LET a == Abs(z2)
        upper == CASE a = 0 -> 50000
                   [] a = 1 -> 69146
                   [] a = 2 -> 84134
                   [] a = 3 -> 93319
                   [] a = 4 -> 97725
                   [] a = 5 -> 99379
                   [] a = 6 -> 99865
                   [] a = 7 -> 99977
                   [] OTHER -> 100000
    IN  IF z2 >= 0 THEN upper ELSE 100000 - upper

\* norm.cdf((be - spot_price) / std_move) with std_move = spot_price * 0.05 *
\* sqrt(days/30), as [nan, p]: a zero std_move gives +-inf (cdf 1 or 0), and
\* 0/0 gives nan.
CdfAtBreakeven(be, spot_price, days_to_expiry) ==
    LET s == SqrtDays(days_to_expiry)
        den == spot_price * s
        num == (be - spot_price) * 20000
    IN  IF den = 0
        THEN IF num = 0 THEN [nan |-> TRUE, p |-> 0]
             ELSE [nan |-> FALSE, p |-> IF num > 0 THEN 100000 ELSE 0]
        ELSE [nan |-> FALSE,
              p |-> NormCdfHalf(RoundHalfEven(2 * num * (IF den < 0 THEN -1 ELSE 1),
                                              Abs(den)))]

\* Lines 196-233: the win probability before clamping, as [nan, p] with p a
\* fraction.
WinProbability(breakevens, range_probs, spot_price, days_to_expiry) ==
    IF range_probs /= NoneVal
    THEN [nan |-> FALSE, p |-> Frac(Get(range_probs, "win_probability", 500), 1000)]
    ELSE IF Len(breakevens) = 2
    THEN LET lower_be == Min(breakevens[1], breakevens[2])
             upper_be == Max(breakevens[1], breakevens[2])
             lo == CdfAtBreakeven(lower_be, spot_price, days_to_expiry)
             hi == CdfAtBreakeven(upper_be, spot_price, days_to_expiry)
         IN  [nan |-> lo.nan \/ hi.nan, p |-> Frac(hi.p - lo.p, 100000)]
    ELSE IF Len(breakevens) = 1
    THEN LET c == CdfAtBreakeven(breakevens[1], spot_price, days_to_expiry)
         IN  IF breakevens[1] > spot_price
             THEN [nan |-> c.nan, p |-> Frac(100000 - c.p, 100000)]
             ELSE [nan |-> c.nan, p |-> Frac(c.p, 100000)]
    ELSE [nan |-> FALSE, p |-> Frac(1, 2)]

\* win_prob = np.clip(win_prob, 0.01, 0.99) (line 236)
ClampProbability(p) == FClip(p, Frac(1, 100), Frac(99, 100))

MaxLossIsZero_never(max_loss) == FALSE

\* max_loss == 0 (line 187)
MaxLossIsZero(max_loss) == max_loss = 0

\* The explicit result of lines 188-193.
ZeroMaxLossResult ==
    [expected_value |-> 0,
     positive_probability |-> 500,
     risk_reward_ratio |-> 0,
     error |-> "Max loss is zero"]

\* The except branch (lines 253-259); error is str(e).
ExpectedValueError(e) ==
    [expected_value |-> 0,
     positive_probability |-> 500,
     risk_reward_ratio |-> 0,
     error |-> e]

\* compute_expected_value(strategy, range_probs, spot_price, days_to_expiry).
\* expected_value and risk_reward_ratio in 1/100, positive_probability in
\* 1/1000; nan marks a result whose expected_value and positive_probability
\* are float nan (their numeric fields are then meaningless).
compute_expected_value(self, strategy, range_probs, spot_price, days_to_expiry) ==
    LET max_profit == Get(strategy, "max_profit", Num(0))
        raw_loss == Get(strategy, "max_loss", Num(0))
    IN  IF strategy = NoneVal THEN ExpectedValueError("AttributeError")
        ELSE IF ~raw_loss.num THEN ExpectedValueError("TypeError")
        ELSE
        LET max_loss == Abs(raw_loss.v)
            breakevens == Get(strategy, "breakevens", <<>>)
        IN  IF MaxLossIsZero(max_loss) THEN ZeroMaxLossResult
            ELSE
            LET w == WinProbability(breakevens, range_probs, spot_price,
                                    days_to_expiry)
                win_prob == ClampProbability(w.p)
            IN  IF ~max_profit.num THEN ExpectedValueError("TypeError")
                ELSE
                LET ev == FSub(FMul(win_prob, FInt(max_profit.v)),
                               FMul(FSub(FInt(1), win_prob), FInt(max_loss)))
                    rr_ratio == IF max_loss > 0 THEN Frac(max_profit.v, max_loss)
                                ELSE FInt(0)
                IN  [expected_value |-> RoundHalfEven(100 * ev.n, ev.d),
                     positive_probability |->
                         RoundHalfEven(1000 * win_prob.n, win_prob.d),
                     risk_reward_ratio |-> RoundHalfEven(100 * rr_ratio.n, rr_ratio.d),
                     max_profit |-> max_profit.v,
                     max_loss |-> -max_loss,
                     nan |-> w.nan,
                     interpretation |->
                         IF ~w.nan /\ ev.n > 0 THEN "Positive EV" ELSE "Negative EV"]

(***************************************************************************)
(* compute_vol_edge.  A DataFrame is [columns |-> set of names, rows |->    *)
(* sequence of rows], a row a function from the column names to values,    *)
(* the index the default 0..n-1.  Implied and realized volatilities are    *)
(* fractions; the rounded outputs are integers: vol_edge_score and         *)
(* raw_edge in 1/1000, atm_iv and realized_vol in 1/10000.                 *)
(***************************************************************************)

\* The except branch (lines 156-161); error is the kind of the exception.
VolEdgeError(e) ==
    [vol_edge_score |-> 0,
     interpretation |-> "Error Computing Vol Edge",
     error |-> e]

\* Lines 64-69.
NoSpotPrice ==
    [vol_edge_score |-> 0,
     interpretation |-> "No Spot Price Available",
     error |-> "Cannot compute vol edge without spot price"]

\* Lines 111-117.
NoIvData ==
    [vol_edge_score |-> 0,
     interpretation |-> "No IV Data Available - Using Default Analysis",
     atm_iv |-> 0,
     warning |-> "IV columns not found; check data format"]

\* spot_price, or option_df['Spot_Price'].iloc[0] when the column exists
\* (lines 61-62); .iloc[0] of an empty column raises IndexError.
ResolveSpot(option_df, spot_price) ==
    IF spot_price /= NoneVal THEN spot_price
    ELSE IF "Spot_Price" \in option_df.columns
    THEN IF Len(option_df.rows) = 0 THEN [raised |-> "IndexError"]
         ELSE Num(option_df.rows[1]["Spot_Price"])
    ELSE NoneVal

\* abs(Strike - spot_price) (line 73)
distance_to_atm(row, spot) == Abs(row["Strike"] - spot)

\* Series.idxmin() of distance_to_atm: the first row at the least distance.
IdxMin(rows, spot) ==
    CHOOSE i \in 1..Len(rows) :
        /\ \A j \in 1..Len(rows) :
              distance_to_atm(rows[i], spot) <= distance_to_atm(rows[j], spot)
        /\ \A j \in 1..(i - 1) :
              distance_to_atm(rows[j], spot) > distance_to_atm(rows[i], spot)

\* option_df_sorted[option_df_sorted['Option_Type'] == type]
RowsOfType(rows, type) == SelectSeq(rows, LAMBDA r : r["Option_Type"] = type)

\* Method 1 is chosen by its columns alone (line 79).
PivotedColumns(columns) == "IV_CE" \in columns /\ "IV_PE" \in columns

\* Method 2 (line 85)
LongColumns(columns) == "Option_Type" \in columns /\ "IV" \in columns

\* Method 3 (line 97)
AlternateColumns(columns) == "IV_Call" \in columns \/ "IV_Put" \in columns

\* Lines 75-100: the if / elif / elif over the three formats.  The format is
\* picked by the columns present; atm_row is assigned by methods 1 and 3 only
\* (bound says whether the local variable atm_row exists afterwards).
ExtractAtmIv(option_df, spot) ==
    LET rows == option_df.rows
        columns == option_df.columns
    IN  IF PivotedColumns(columns)
        THEN IF Len(rows) = 0 THEN [raised |-> "ValueError"]
             ELSE LET atm_row == rows[IdxMin(rows, spot)]
                  IN  [raised |-> "none", bound |-> TRUE, atm_row |-> atm_row,
                       iv_ce |-> Get(atm_row, "IV_CE", FInt(0)),
                       iv_pe |-> Get(atm_row, "IV_PE", FInt(0))]
        ELSE IF LongColumns(columns)
        THEN LET atm_ce == RowsOfType(rows, "CE")
                 atm_pe == RowsOfType(rows, "PE")
             IN  [raised |-> "none", bound |-> FALSE, atm_row |-> NoneVal,
                  iv_ce |-> IF Len(atm_ce) > 0
                            THEN atm_ce[IdxMin(atm_ce, spot)]["IV"] ELSE FInt(0),
                  iv_pe |-> IF Len(atm_pe) > 0
                            THEN atm_pe[IdxMin(atm_pe, spot)]["IV"] ELSE FInt(0)]
        ELSE IF AlternateColumns(columns)
        THEN IF Len(rows) = 0 THEN [raised |-> "ValueError"]
             ELSE LET atm_row == rows[IdxMin(rows, spot)]
                  IN  [raised |-> "none", bound |-> TRUE, atm_row |-> atm_row,
                       iv_ce |-> Get(atm_row, "IV_Call", FInt(0)),
                       iv_pe |-> Get(atm_row, "IV_Put", FInt(0))]
        ELSE [raised |-> "none", bound |-> FALSE, atm_row |-> NoneVal,
              iv_ce |-> FInt(0), iv_pe |-> FInt(0)]

\* Lines 103-109: the average of the two IVs, or the one that is non-zero.
AtmIv(iv_ce, iv_pe) ==
    IF iv_ce.n /= 0 /\ iv_pe.n /= 0 THEN FDiv(FAdd(iv_ce, iv_pe), FInt(2))
    ELSE IF iv_ce.n /= 0 THEN iv_ce
    ELSE IF iv_pe.n /= 0 THEN iv_pe
    ELSE FInt(0)

\* The typical NIFTY realized volatility used without history (line 127).
FallbackRealizedVol == Frac(18, 100)

\* Lines 120-127.  A historical frame is [columns, len, annualized], where
\* annualized stands for what returns.std() * np.sqrt(252) gives on its Close
\* column; a frame of more than 5 rows without a Close column raises KeyError.
RealizedVol(historical_df) ==
    IF historical_df /= NoneVal /\ historical_df.len > 5
    THEN IF "Close" \in historical_df.columns
         THEN [raised |-> "none", v |-> historical_df.annualized]
         ELSE [raised |-> "KeyError"]
    ELSE [raised |-> "none", v |-> FallbackRealizedVol]

\* Lines 136-145, on the clipped score.
VolEdgeInterpretation(vol_edge_score) ==
    IF FLess(Frac(20, 100), vol_edge_score) THEN "Strong Premium Selling Edge"
    ELSE IF FLess(Frac(10, 100), vol_edge_score) THEN "Moderate Premium Selling Edge"
    ELSE IF FLess(Frac(-10, 100), vol_edge_score) THEN "Neutral Volatility"
    ELSE IF FLess(Frac(-20, 100), vol_edge_score) THEN "Moderate Long Vol Edge"
    ELSE "Strong Long Vol Edge"

\* round(x, digits) of a fraction, as an integer in units of 1/scale.
RoundTo(x, scale) == RoundHalfEven(scale * x.n, x.d)

\* The try block of compute_vol_edge (lines 60-154): a result dict, or
\* [raised |-> kind] for the exception the except branch will catch.
compute_vol_edge_body(self, option_df, historical_df, spot_price) ==
    IF option_df = NoneVal THEN [raised |-> "AttributeError"]
    ELSE
    LET spot == ResolveSpot(option_df, spot_price)
    IN  IF Escaped(spot) THEN spot
        ELSE IF spot = NoneVal THEN NoSpotPrice
        ELSE IF "Strike" \notin option_df.columns THEN [raised |-> "KeyError"]
        ELSE
        LET ivs == ExtractAtmIv(option_df, spot.v)
        IN  IF Escaped(ivs) THEN ivs
            ELSE
            LET atm_iv == AtmIv(ivs.iv_ce, ivs.iv_pe)
            IN  IF atm_iv.n = 0 THEN NoIvData
                ELSE
                LET realized == RealizedVol(historical_df)
                IN  IF Escaped(realized) THEN realized
                    ELSE
                    LET realized_vol == realized.v
                        vol_edge == FDiv(FSub(atm_iv, realized_vol), realized_vol)
                        vol_edge_score == FClip(vol_edge, FInt(-1), FInt(1))
                    IN  IF ~ivs.bound THEN [raised |-> "UnboundLocalError"]
                        ELSE [vol_edge_score |-> RoundTo(vol_edge_score, 1000),
                              interpretation |-> VolEdgeInterpretation(vol_edge_score),
                              atm_iv |-> RoundTo(atm_iv, 10000),
                              realized_vol |-> RoundTo(realized_vol, 10000),
                              atm_strike |-> ivs.atm_row["Strike"],
                              raw_edge |-> RoundTo(vol_edge, 1000)]

\* compute_vol_edge(option_df, historical_df, spot_price): the try block, and
\* the except branch for whatever it raised.
compute_vol_edge(self, option_df, historical_df, spot_price) ==
    LET body == compute_vol_edge_body(self, option_df, historical_df, spot_price)
    IN  IF Escaped(body) THEN VolEdgeError(body.raised) ELSE body

(***************************************************************************)
(* compute_trade_score.  pcr is a fraction, total_oi a count, the          *)
(* liquidity score in points; the components, rounded to 1 decimal, are    *)
(* in 1/10 point.                                                          *)
(***************************************************************************)

\* The except branch (lines 375-380).
TradeScoreError(e) ==
    [trade_score |-> 50, confidence_level |-> "Low", error |-> e]

\* Lines 297-304.
RegimeScore(pcr) ==
    IF FLess(pcr, Frac(7, 10)) THEN 80
    ELSE IF FLess(Frac(13, 10), pcr) THEN 80
    ELSE IF FLeq(Frac(8, 10), pcr) /\ FLeq(pcr, Frac(12, 10)) THEN 50
    ELSE 65

RiskRewardScore_strict(rr_ratio) ==
    IF rr_ratio > 200 THEN 100
    ELSE IF rr_ratio > 150 THEN 80
    ELSE IF rr_ratio > 100 THEN 60
    ELSE 40

\* Lines 313-320; rr_ratio in 1/100.
RiskRewardScore(rr_ratio) ==
    IF rr_ratio >= 200 THEN 100
    ELSE IF rr_ratio >= 150 THEN 80
    ELSE IF rr_ratio >= 100 THEN 60
    ELSE 40

\* Lines 329-336.
OiScore(total_oi) ==
    IF total_oi > 5000000 THEN 90
    ELSE IF total_oi > 2000000 THEN 70
    ELSE IF total_oi > 1000000 THEN 50
    ELSE 30

\* Lines 342-346: {} and None take the default 75, a dict without score 70.
LiquidityScore(liquidity_metrics) ==
    IF Truthy(liquidity_metrics) THEN Get(liquidity_metrics, "score", 70) ELSE 75

\* Lines 356-361.
ConfidenceLevel(trade_score) ==
    IF trade_score >= 75 THEN "High"
    ELSE IF trade_score >= 60 THEN "Medium"
    ELSE "Low"

\* compute_trade_score(vol_edge, ev_metrics, market_metrics, liquidity_metrics):
\* an argument that is no dict (None) makes .get raise inside the try block.
compute_trade_score(self, vol_edge, ev_metrics, market_metrics, liquidity_metrics) ==
    IF vol_edge = NoneVal \/ ev_metrics = NoneVal \/ market_metrics = NoneVal
    THEN TradeScoreError("AttributeError")
    ELSE
    LET vol_edge_score == Get(vol_edge, "vol_edge_score", 0)
        vol_component == Frac(Abs(vol_edge_score) * 100 * 25, 100000)
        pcr == Get(market_metrics, "pcr", FInt(1))
        regime_component == Frac(RegimeScore(pcr) * 25, 100)
        rr_ratio == Get(ev_metrics, "risk_reward_ratio", 0)
        rr_component == Frac(RiskRewardScore(rr_ratio) * 20, 100)
        total_oi == Get(market_metrics, "total_oi", 0)
        oi_component == Frac(OiScore(total_oi) * 15, 100)
        liquidity_component == Frac(LiquidityScore(liquidity_metrics) * 15, 100)
        total == FAdd(FAdd(FAdd(FAdd(vol_component, regime_component),
                                rr_component), oi_component), liquidity_component)
        trade_score == Max(0, Min(100, Trunc(total)))
    IN  [trade_score |-> trade_score,
         confidence_level |-> ConfidenceLevel(trade_score),
         components |-> [vol_edge |-> RoundTo(vol_component, 10),
                         regime |-> RoundTo(regime_component, 10),
                         risk_reward |-> RoundTo(rr_component, 10),
                         oi_support |-> RoundTo(oi_component, 10),
                         liquidity |-> RoundTo(liquidity_component, 10)]]

(***************************************************************************)
(* DecisionEngine: construction and calls                                  *)
(***************************************************************************)

\* A dict holding key only when present.
Entry(present, key, value) == IF present THEN key :> value ELSE EmptyDict

EngineConfigs ==
    {EmptyDict, [min_trade_score |-> 50], [max_risk_of_ruin |-> 1000]}

VolEdgeInputs ==
    {NoneVal, EmptyDict}
    \cup {[vol_edge_score |-> v, interpretation |-> "edge"] : v \in {-200, 150, 151}}

EvMetricsInputs ==
    {NoneVal, EmptyDict}
    \cup {[expected_value |-> ev, risk_reward_ratio |-> rr] :
            ev \in {-5000, 0, 1, 120000}, rr \in {0, 149, 150}}

TradeScoreInputs ==
    {NoneVal, EmptyDict}
    \cup {[trade_score |-> sc, confidence_level |-> "level"] :
            sc \in {49, 50, 59, 60, 75}}

RiskMetricsInputs ==
    {NoneVal, EmptyDict, [expected_equity |-> 100000]}
    \cup {[risk_of_ruin |-> r] : r \in {0, 500, 501, 1000, 2000, 2001}}

SignalInputs ==
    {[signal |-> sg, confidence |-> c] :
        sg \in {"CALL_BUY", "PUT_BUY", "NO_SIGNAL"}, c \in {0, 45, 80}}

StrategyTypeInputs ==
    {"LONG_CALL", "LONG_PUT", "IRON_CONDOR", "STRANGLE", "BUTTERFLY",
     "BULL_CALL_SPREAD", "CREDIT"}

StrategyDictInputs ==
    {Entry(hasP, "max_profit", mp) @@ Entry(hasL, "max_loss", ml)
       @@ ("breakevens" :> be) :
        hasP \in BOOLEAN, hasL \in BOOLEAN,
        mp \in {Num(3000), Unlimited},
        ml \in {Num(0), Num(-2000), Num(12000), Unlimited},
        be \in {<<>>, <<25740>>, <<26260>>, <<26000>>, <<25740, 26260>>}}

RangeProbsInputs ==
    {NoneVal, EmptyDict} \cup {[win_probability |-> w] : w \in {-200, 650, 1500}}

\* The option_df arguments.  A chain has the strikes 25900, 26000, 26100; the
\* row at strike 26000 carries the chosen IVs and every other row 0.30; a
\* Spot_Price column carries 26010.  With an Option_Type column there is one
\* row per strike and type, else one row per strike.
OptionChainInputs ==
    LET IvInputs == {<<FInt(0), FInt(0)>>, <<Frac(21, 100), FInt(0)>>,
                     <<Frac(21, 100), Frac(24, 100)>>}
        ColumnInputs ==
            {{"Strike", "IV_CE", "IV_PE"},
             {"Strike", "Spot_Price", "IV_CE", "IV_PE"},
             {"Strike", "Option_Type", "IV"},
             {"Strike", "Spot_Price", "Option_Type", "IV"},
             {"Strike", "IV_Call", "IV_Put"},
             {"Strike", "IV_Call"},
             {"Strike", "IV_CE", "IV_PE", "Option_Type", "IV"},
             {"Strike", "IV_CE", "IV_PE", "IV_Call", "IV_Put"},
             {"Strike", "Option_Type", "IV", "IV_Call", "IV_Put"},
             {"Strike", "IV_CE"},
             {"Strike"},
             {"Spot_Price", "IV_CE", "IV_PE"},
             {}}
        At(strike, pair, k) == IF strike = 26000 THEN pair[k] ELSE Frac(30, 100)
        ChainRow(columns, strike, type, pivoted, long, alternate) ==
            [c \in columns |->
                CASE c = "Strike" -> strike
                  [] c = "Spot_Price" -> 26010
                  [] c = "Option_Type" -> type
                  [] c = "IV" -> At(strike, long, IF type = "CE" THEN 1 ELSE 2)
                  [] c = "IV_CE" -> At(strike, pivoted, 1)
                  [] c = "IV_PE" -> At(strike, pivoted, 2)
                  [] c = "IV_Call" -> At(strike, alternate, 1)
                  [] c = "IV_Put" -> At(strike, alternate, 2)]
        OptionChain(columns, strikes, types, pivoted, long, alternate) ==
            LET per == IF "Option_Type" \in columns THEN Len(types) ELSE 1
            IN  [columns |-> columns,
                 rows |-> [i \in 1..(Len(strikes) * per) |->
                             ChainRow(columns, strikes[((i - 1) \div per) + 1],
                                      IF "Option_Type" \in columns
                                      THEN types[((i - 1) % per) + 1] ELSE "CE",
                                      pivoted, long, alternate)]]
    IN  {NoneVal}
        \cup {OptionChain(columns, strikes, types, pivoted, long, alternate) :
                columns \in ColumnInputs,
                strikes \in {<<>>, <<25900, 26000, 26100>>},
                types \in {<<"CE", "PE">>, <<"CE">>},
                pivoted \in IvInputs, long \in IvInputs, alternate \in IvInputs}

HistoricalInputs ==
    {NoneVal, [columns |-> {"Open"}, len |-> 30, annualized |-> Frac(12, 100)]}
    \cup {[columns |-> {"Close"}, len |-> rows, annualized |-> vol] :
            rows \in {5, 6, 30}, vol \in {Frac(12, 100), Frac(30, 100)}}

MarketMetricsInputs ==
    {NoneVal, EmptyDict}
    \cup {[pcr |-> Frac(p, 100), total_oi |-> oi] :
            p \in {60, 75, 100, 140}, oi \in {0, 1500000, 6000000}}

LiquidityInputs == {NoneVal, EmptyDict, [spread |-> 1], [score |-> 40], [score |-> 400]}

\* engine = DecisionEngine(config)
InitDecision ==
    /\ engine \in {DecisionEngineInit(c) : c \in EngineConfigs}
    /\ decision = NoCall

\* engine.generate_trade_decision(vol_edge, ev_metrics, trade_score, risk_metrics)
GenerateTradeDecision ==
    /\ decision = NoCall
    /\ \E vol_edge \in VolEdgeInputs, ev_metrics \in EvMetricsInputs,
          trade_score \in TradeScoreInputs, risk_metrics \in RiskMetricsInputs :
          decision' =
              [op |-> "generate_trade_decision",
               vol_edge |-> vol_edge,
               ev_metrics |-> ev_metrics,
               trade_score |-> trade_score,
               risk_metrics |-> risk_metrics,
               result |-> generate_trade_decision(engine, vol_edge, ev_metrics,
                                                  trade_score, risk_metrics)]
    /\ UNCHANGED <<engine, strat, sizer, sizing, last_simulation, simulation,
                   __debug__, new_leg, np_random>>

\* engine.validate_with_directional_signal(signal, strategy_type, vol_edge_score,
\* risk_of_ruin)
ValidateWithDirectionalSignal ==
    /\ decision = NoCall
    /\ \E directional_signal \in SignalInputs \cup {NoneVal},
          strategy_type \in StrategyTypeInputs,
          vol_edge_score \in {-200, 0, 200},
          risk_of_ruin \in {0, 800, 1001, 2000, 2001} :
          decision' =
              [op |-> "validate_with_directional_signal",
               directional_signal |-> directional_signal,
               strategy_type |-> strategy_type,
               vol_edge_score |-> vol_edge_score,
               risk_of_ruin |-> risk_of_ruin,
               result |-> validate_with_directional_signal(engine,
                              directional_signal, strategy_type, vol_edge_score,
                              risk_of_ruin)]
    /\ UNCHANGED <<engine, strat, sizer, sizing, last_simulation, simulation,
                   __debug__, new_leg, np_random>>

\* engine.compute_expected_value(strategy, range_probs, spot_price, days_to_expiry)
ComputeExpectedValue ==
    /\ decision = NoCall
    /\ \E strategy \in StrategyDictInputs, range_probs \in RangeProbsInputs,
          spot_price \in {26000}, days_to_expiry \in {0, 7, 30} :
          decision' =
              [op |-> "compute_expected_value",
               strategy |-> strategy,
               range_probs |-> range_probs,
               spot_price |-> spot_price,
               days_to_expiry |-> days_to_expiry,
               result |-> compute_expected_value(engine, strategy, range_probs,
                                                 spot_price, days_to_expiry)]
    /\ UNCHANGED <<engine, strat, sizer, sizing, last_simulation, simulation,
                   __debug__, new_leg, np_random>>

\* engine.compute_vol_edge(option_df, historical_df, spot_price)
ComputeVolEdge ==
    /\ decision = NoCall
    /\ \E option_df \in OptionChainInputs, historical_df \in HistoricalInputs,
          spot_price \in {NoneVal, Num(26010), Num(26050), Num(26080)} :
          decision' =
              [op |-> "compute_vol_edge",
               option_df |-> option_df,
               historical_df |-> historical_df,
               spot_price |-> spot_price,
               result |-> compute_vol_edge(engine, option_df, historical_df,
                                           spot_price)]
    /\ UNCHANGED <<engine, strat, sizer, sizing, last_simulation, simulation,
                   __debug__, new_leg, np_random>>

\* engine.compute_trade_score(vol_edge, ev_metrics, market_metrics,
\* liquidity_metrics)
ComputeTradeScore ==
    /\ decision = NoCall
    /\ \E vol_edge \in VolEdgeInputs, ev_metrics \in EvMetricsInputs,
          market_metrics \in MarketMetricsInputs,
          liquidity_metrics \in LiquidityInputs :
          decision' =
              [op |-> "compute_trade_score",
               vol_edge |-> vol_edge,
               ev_metrics |-> ev_metrics,
               market_metrics |-> market_metrics,
               liquidity_metrics |-> liquidity_metrics,
               result |-> compute_trade_score(engine, vol_edge, ev_metrics,
                                              market_metrics, liquidity_metrics)]
    /\ UNCHANGED <<engine, strat, sizer, sizing, last_simulation, simulation,
                   __debug__, new_leg, np_random>>

NextDecision ==
    \/ GenerateTradeDecision
    \/ ValidateWithDirectionalSignal
    \/ ComputeExpectedValue
    \/ ComputeVolEdge
    \/ ComputeTradeScore

(***************************************************************************)
(* OptionLeg and Strategy (analysis/strategy_builder_v2.py)                *)
(*                                                                         *)
(* Strikes, premiums and spots in rupees; a breakeven, which the code      *)
(* rounds to 2 decimals, in 1/100 rupee.                                   *)
(***************************************************************************)

\* OptionLeg.__post_init__: the five assertions.
OptionLeg__post_init__(leg) ==
    /\ leg.type \in {"CE", "PE"}
    /\ leg.position \in {"BUY", "SELL"}
    /\ leg.strike > 0
    /\ leg.entry_price >= 0
    /\ leg.quantity > 0

OptionLeg(type, position, strike, entry_price, quantity) ==
    [type |-> type, position |-> position, strike |-> strike,
     expiry |-> "2026-02-26", entry_price |-> entry_price, quantity |-> quantity]

\* OptionLeg(type, position, strike, expiry, entry_price, quantity): the
\* dataclass __init__ stores the fields, then __post_init__ runs.  An assert
\* statement raises AssertionError when its condition is false and is compiled
\* away when __debug__ is False.
NewOptionLeg(debug, type, position, strike, entry_price, quantity) ==
    LET self == OptionLeg(type, position, strike, entry_price, quantity)
    IN  IF debug /\ ~OptionLeg__post_init__(self)
        THEN [raised |-> "AssertionError"]
        ELSE [raised |-> "none", obj |-> self]

\* obj.<field> = value on an OptionLeg: the dataclass is not frozen, so the
\* assignment stores the value and runs no validation.
OptionLeg__setattr__(self, field, value) == [self EXCEPT ![field] = value]

\* Strategy.__init__(name, spot_price, lot_size)
StrategyInit(spot_price, lot_size) ==
    [spot_price |-> spot_price, lot_size |-> lot_size, legs |-> <<>>]

\* Strategy.add_leg(leg)
add_leg(self, leg) == [self EXCEPT !.legs = Append(self.legs, leg)]

\* list.pop(index), index counted from 0
Pop(seq, index) ==
    [i \in 1..(Len(seq) - 1) |-> IF i <= index THEN seq[i] ELSE seq[i + 1]]

\* Strategy.remove_leg(index)
remove_leg(self, index) ==
    IF 0 <= index /\ index < Len(self.legs)
    THEN [self EXCEPT !.legs = Pop(self.legs, index)]
    ELSE self

RECURSIVE SumOver(_, _, _)
\* sum of term[i] for i in lo..hi
SumOver(term, lo, hi) == IF lo > hi THEN 0 ELSE term[lo] + SumOver(term, lo + 1, hi)

\* Strategy.get_net_premium(): <<total_debit, total_credit, net_premium>>
get_net_premium(self) ==
    LET premium(leg) == leg.entry_price * leg.quantity * self.lot_size
        debit == [i \in DOMAIN self.legs |->
                    IF self.legs[i].position = "BUY" THEN premium(self.legs[i]) ELSE 0]
        credit == [i \in DOMAIN self.legs |->
                    IF self.legs[i].position = "BUY" THEN 0 ELSE premium(self.legs[i])]
        total_debit == SumOver(debit, 1, Len(self.legs))
        total_credit == SumOver(credit, 1, Len(self.legs))
    IN  <<total_debit, total_credit, total_credit - total_debit>>

Intrinsic_swapped(leg, x, den) ==
    IF leg.type = "CE" THEN Max(leg.strike * den - x, 0)
    ELSE Max(x - leg.strike * den, 0)

\* Intrinsic value of a leg at the spot x/den, times den (lines 122-125).
Intrinsic(leg, x, den) ==
    IF leg.type = "CE" THEN Max(x - leg.strike * den, 0)
    ELSE Max(leg.strike * den - x, 0)

LegPnl_unsigned(leg, x, den) == Intrinsic(leg, x, den) - leg.entry_price * den

\* Leg P&L at the spot x/den, times den (lines 128-133).
LegPnl(leg, x, den) ==
    IF leg.position = "BUY" THEN Intrinsic(leg, x, den) - leg.entry_price * den
    ELSE leg.entry_price * den - Intrinsic(leg, x, den)

\* The payoff at the spot x/den, times den: the loop of lines 120-136.
PayoffScaled(self, x, den) ==
    LET term == [i \in DOMAIN self.legs |->
                    LegPnl(self.legs[i], x, den) * self.legs[i].quantity
                        * self.lot_size]
    IN  SumOver(term, 1, Len(self.legs))

\* Strategy.compute_payoff_at_expiry(spot_prices), elementwise over the array.
compute_payoff_at_expiry(self, spot_prices) ==
    [i \in DOMAIN spot_prices |-> PayoffScaled(self, spot_prices[i], 1)]

Sign(x) == IF x > 0 THEN 1 ELSE IF x < 0 THEN -1 ELSE 0

\* np.linspace(.., .., 1000): the number of samples of calculate_breakevens.
BreakevenSamples == 1000

\* The common denominator of the sample points.
SampleDen == 2 * (BreakevenSamples - 1)

\* spot_range[k] * SampleDen for k in 0..BreakevenSamples-1:
\* linspace(0.5 * spot_price, 1.5 * spot_price, 1000)
SpotRange(self, k) == self.spot_price * ((BreakevenSamples - 1) + 2 * k)

\* np.where(np.diff(np.sign(payoff)))[0]
SignChanges(self) ==
    {idx \in 0..(BreakevenSamples - 2) :
        Sign(PayoffScaled(self, SpotRange(self, idx), SampleDen))
            /= Sign(PayoffScaled(self, SpotRange(self, idx + 1), SampleDen))}

\* round(x / SampleDen, 2) in 1/100, for x >= 0.
RoundSample(x) ==
    100 * (x \div SampleDen) + RoundHalfEven(100 * (x % SampleDen), SampleDen)

\* round(brentq(pnl_func, a, b), 2) in 1/100 for a bracket whose ends have
\* payoffs of opposite sign: the cent nearest to a zero of the payoff within
\* the bracket.
RootCents(self, xa, xb) ==
    LET lo == 100 * (xa \div SampleDen) + ((100 * (xa % SampleDen)) \div SampleDen)
        hi == 100 * (xb \div SampleDen) + ((100 * (xb % SampleDen)) \div SampleDen) + 1
        f(h) == PayoffScaled(self, h, 200)
    IN  CHOOSE c \in lo..hi :
            \/ f(2 * c) = 0
            \/ Sign(f(2 * c - 1)) * Sign(f(2 * c + 1)) = -1

\* round(brentq(pnl_func, spot_range[idx], spot_range[idx + 1]), 2): brentq
\* returns an end of the bracket whose payoff is zero, else a root inside.
\* The except branch (interpolation) needs brentq to raise, which it does
\* only for ends of equal sign: a sign change rules that out.
BrentBreakeven(self, idx) ==
    LET xa == SpotRange(self, idx)
        xb == SpotRange(self, idx + 1)
    IN  IF PayoffScaled(self, xa, SampleDen) = 0 THEN RoundSample(xa)
        ELSE IF PayoffScaled(self, xb, SampleDen) = 0 THEN RoundSample(xb)
        ELSE RootCents(self, xa, xb)

RECURSIVE Sorted(_)
\* sorted(list(set)) of a finite set of integers
Sorted(set) ==
    IF set = {} THEN <<>>
    ELSE LET m == CHOOSE x \in set : \A y \in set : x <= y
         IN  <<m>> \o Sorted(set \ {m})

\* Strategy.calculate_breakevens(): sorted, deduplicated, in 1/100.
calculate_breakevens(self) ==
    Sorted({BrentBreakeven(self, idx) : idx \in SignChanges(self)})

\* np.linspace(.., .., 2000): the number of samples of
\* calculate_max_profit_loss.
ProfitLossSamples == 2000

\* spot_range[k] * 2 * (ProfitLossSamples - 1) for k in 0..ProfitLossSamples-1:
\* linspace(0.5 * spot_price, 1.5 * spot_price, 2000) (line 223)
ProfitLossRange(self, k) == self.spot_price * ((ProfitLossSamples - 1) + 2 * k)

\* payoff[k] of line 224 for one unit of lot size, times the denominator
\* 2 * (ProfitLossSamples - 1); payoff[k] itself is self.lot_size times it.
UnitPayoff(self, k) ==
    PayoffScaled([self EXCEPT !.lot_size = 1], ProfitLossRange(self, k),
                 2 * (ProfitLossSamples - 1))

RECURSIVE ExtremePayoff(_, _, _, _)
\* np.max (sense 1) or np.min (sense -1) of payoff[lo..hi], as UnitPayoff.
ExtremePayoff(self, lo, hi, sense) ==
    IF lo = hi THEN UnitPayoff(self, lo)
    ELSE LET mid == (lo + hi) \div 2
             a == ExtremePayoff(self, lo, mid, sense)
             b == ExtremePayoff(self, mid + 1, hi, sense)
         IN  IF sense * a >= sense * b THEN a ELSE b

\* round(lot_size * u / den, 2) in 1/100, u a UnitPayoff.
RoundPayoff(self, u) ==
    LET den == 2 * (ProfitLossSamples - 1)
    IN  100 * self.lot_size * (u \div den)
            + RoundHalfEven(100 * self.lot_size * (u % den), den)

\* payoff[i] - payoff[j] > self.spot_price * 0.1 (lines 232, 236)
EdgeGrows(self, i, j) ==
    FLess(Frac(self.spot_price * 2 * (ProfitLossSamples - 1), 10),
          FInt(self.lot_size * Abs(UnitPayoff(self, i) - UnitPayoff(self, j))))

\* Strategy.calculate_max_profit_loss(): <<max_profit, max_loss>> in 1/100,
\* or Unlimited.  The profit is looked at on the upper end of the range only
\* (payoff[-1] against payoff[-100]), the loss on the lower end only
\* (payoff[0] against payoff[100]).
calculate_max_profit_loss(self) ==
    LET last == ProfitLossSamples - 1
        max_profit ==
            IF /\ UnitPayoff(self, last) > UnitPayoff(self, last - 99)
               /\ EdgeGrows(self, last, last - 99)
            THEN Unlimited
            ELSE Num(RoundPayoff(self, ExtremePayoff(self, 0, last, 1)))
        max_loss ==
            IF /\ UnitPayoff(self, 0) < UnitPayoff(self, 100)
               /\ EdgeGrows(self, 0, 100)
            THEN Unlimited
            ELSE Num(RoundPayoff(self, ExtremePayoff(self, 0, last, -1)))
    IN  <<max_profit, max_loss>>

\* Strategy.estimate_margin() in 1/100: |max_loss| when max_loss is a negative
\* number, else 20% of the underlying for every SELL leg.
estimate_margin(self) ==
    LET max_loss == calculate_max_profit_loss(self)[2]
        leg_margin == [i \in DOMAIN self.legs |->
                          IF self.legs[i].position = "SELL"
                          THEN self.spot_price * 20 * self.legs[i].quantity
                                  * self.lot_size
                          ELSE 0]
    IN  IF max_loss.num /\ max_loss.v < 0 THEN Abs(max_loss.v)
        ELSE SumOver(leg_margin, 1, Len(self.legs))

(***************************************************************************)
(* Strategy: construction and calls                                        *)
(***************************************************************************)

\* The legs a caller may try to construct; the last two fail validation.
LegInputs ==
    {OptionLeg("PE", "BUY", 25700, 10, 1),
     OptionLeg("PE", "SELL", 25800, 40, 1),
     OptionLeg("CE", "SELL", 26200, 40, 1),
     OptionLeg("CE", "BUY", 26500, 10, 1),
     OptionLeg("CE", "BUY", 26000, 150, 2),
     OptionLeg("PE", "BUY", 26000, 120, 1),
     OptionLeg("CE", "BUY", 0, 10, 1),
     OptionLeg("PE", "SELL", 25800, 40, 0)}

MaxLegs == 4

\* strategy = Strategy(name, spot_price, lot_size)
InitStrategy == strat \in {StrategyInit(26000, lot) : lot \in {1, 50}}

\* strategy.add_leg(OptionLeg(...)): add_leg is reached only if the
\* construction did not raise.
AddLeg ==
    /\ Len(strat.legs) < MaxLegs
    /\ \E leg \in LegInputs :
          LET made == NewOptionLeg(__debug__, leg.type, leg.position, leg.strike,
                                   leg.entry_price, leg.quantity)
          IN  /\ made.raised = "none"
              /\ strat' = add_leg(strat, made.obj)
    /\ UNCHANGED <<engine, decision, sizer, sizing, last_simulation, simulation,
                   __debug__, new_leg, np_random>>

\* strategy.remove_leg(index), also with an index out of range
RemoveLeg ==
    /\ \E index \in -1..MaxLegs : strat' = remove_leg(strat, index)
    /\ UNCHANGED <<engine, decision, sizer, sizing, last_simulation, simulation,
                   __debug__, new_leg, np_random>>

\* strategy.legs[0].quantity = 0: an assignment to a field of a leg the
\* strategy holds.
SetLegField ==
    /\ Len(strat.legs) > 0
    /\ \E field \in {"quantity"}, value \in {0} :
          strat' = [strat EXCEPT
                      !.legs[1] = OptionLeg__setattr__(strat.legs[1], field, value)]
    /\ UNCHANGED <<engine, decision, sizer, sizing, last_simulation, simulation,
                   __debug__, new_leg, np_random>>

NextStrategy ==
    \/ AddLeg
    \/ RemoveLeg
    \/ SetLegField

\* The interpreter runs with assertions or, under python -O, without.
InitPython == __debug__ \in BOOLEAN

InitLeg == new_leg = NoCall

\* new_leg = OptionLeg(type, position, strike, expiry, entry_price, quantity)
ConstructLeg ==
    /\ new_leg = NoCall
    /\ \E type \in {"CE", "PE", "INVALID"}, position \in {"BUY", "SELL", "HOLD"},
          strike \in {-100, 0, 26000}, entry_price \in {-5, 0, 150},
          quantity \in {-1, 0, 1, 2} :
          new_leg' = [op |-> "OptionLeg",
                      type |-> type,
                      position |-> position,
                      strike |-> strike,
                      entry_price |-> entry_price,
                      quantity |-> quantity,
                      result |-> NewOptionLeg(__debug__, type, position, strike,
                                              entry_price, quantity)]
    /\ UNCHANGED <<engine, decision, strat, sizer, sizing, last_simulation,
                   simulation, __debug__, np_random>>

NextLeg == ConstructLeg

(***************************************************************************)
(* PositionSizer (analysis/position_sizer.py)                              *)
(*                                                                         *)
(* win_rate, avg_rr, safety_factor and every risk fraction are fractions;  *)
(* sample_size is an integer.                                              *)
(***************************************************************************)

\* PositionSizer.__init__(account_size, max_risk_pct, lot_size):
\* self.max_risk_pct = max_risk_pct / 100
PositionSizerInit(account_size, max_risk_pct, lot_size) ==
    [account_size |-> account_size,
     max_risk_pct |-> Frac(max_risk_pct, 100),
     lot_size |-> lot_size]

SmallSampleFactor_fifty(sample_size) == Frac(sample_size, 50)

\* uncertainty_factor = sample_size / 200 for a sample below 50 (line 103)
SmallSampleFactor(sample_size) == Frac(sample_size, 200)

\* Lines 96-103: min(1.0, sample_size / 100), overridden below 50.
UncertaintyFactor(sample_size) ==
    IF sample_size < 50 THEN SmallSampleFactor(sample_size)
    ELSE FMin(FInt(1), Frac(sample_size, 100))

KellyFloor_none(kelly) == kelly

\* kelly = max(0, kelly) (line 109)
KellyFloor(kelly) == FMax(FInt(0), kelly)

CapAtMaxRisk_none(self, risk) == risk

\* min(risk, self.max_risk_pct) (lines 118, 146, 181)
CapAtMaxRisk(self, risk) == FMin(risk, self.max_risk_pct)

\* PositionSizer.kelly_fraction(win_rate, avg_rr, sample_size, safety_factor)
kelly_fraction(self, win_rate, avg_rr, sample_size, safety_factor) ==
    IF FLeq(avg_rr, FInt(0))
    THEN [recommended_fraction |-> FInt(0),
          capital_at_risk |-> FInt(0),
          uncertainty_factor |-> FInt(0),
          warnings |-> <<"avg_rr <= 0: Cannot calculate Kelly">>]
    ELSE
    LET p == FClip(win_rate, Frac(1, 100), Frac(99, 100))
        loss_rate == FSub(FInt(1), p)
        uncertainty_factor == UncertaintyFactor(sample_size)
        warnings == IF sample_size < 50 THEN <<"Sample size < 50">> ELSE <<>>
        kelly == KellyFloor(FDiv(FSub(FMul(p, avg_rr), loss_rate), avg_rr))
        safe_kelly == FMul(FMul(kelly, safety_factor), uncertainty_factor)
        recommended_risk == CapAtMaxRisk(self, safe_kelly)
        capital_at_risk == FMul(FInt(self.account_size), recommended_risk)
    IN  [recommended_fraction |-> recommended_risk,
         capital_at_risk |-> capital_at_risk,
         uncertainty_factor |-> uncertainty_factor,
         full_kelly |-> kelly,
         safe_kelly_before_adjustment |-> FMul(kelly, safety_factor),
         warnings |-> warnings]

\* PositionSizer.fixed_fraction(risk_percent)
fixed_fraction(self, risk_percent) ==
    CapAtMaxRisk(self, FDiv(risk_percent, FInt(100)))

\* current_volatility <= 0 or baseline_volatility <= 0 (line 168)
DegenerateVolatility(current_volatility, baseline_volatility) ==
    FLeq(current_volatility, FInt(0)) \/ FLeq(baseline_volatility, FInt(0))

\* PositionSizer.volatility_adjusted_size(base_risk, current_volatility,
\* baseline_volatility)
volatility_adjusted_size(self, base_risk, current_volatility, baseline_volatility) ==
    IF DegenerateVolatility(current_volatility, baseline_volatility)
    THEN FDiv(base_risk, FInt(100))
    ELSE LET vol_ratio == FClip(FDiv(baseline_volatility, current_volatility),
                                Frac(1, 2), Frac(3, 2))
             adjusted_risk == FMul(FDiv(base_risk, FInt(100)), vol_ratio)
         IN  CapAtMaxRisk(self, adjusted_risk)

\* PositionSizeOutput(...)
PositionSizeOutput(recommended_size, capital_at_risk, num_lots, risk_pct, method, warnings, kelly_detail) ==
    [raised |-> "none",
     recommended_size |-> recommended_size,
     capital_at_risk |-> capital_at_risk,
     num_lots |-> num_lots,
     risk_pct |-> risk_pct,
     method |-> method,
     warnings |-> warnings,
     kelly_detail |-> kelly_detail]

SizerMaxLossIsZero_never(max_loss) == FALSE

\* max_loss == 0 (line 216)
SizerMaxLossIsZero(max_loss) == max_loss = 0

AtLeastOneLot_none(lots) == lots

\* max(1, int(...)) (lines 276, 287)
AtLeastOneLot(lots) == Max(1, lots)

\* The lots and the risk of lines 271-293 for a risk fraction: num_lots,
\* rupees at risk, risk_pct in 1/100 of a percent, warnings.
LotsForRisk(self, max_loss, risk_fraction, warnings) ==
    LET capital_to_risk == FMul(FInt(self.account_size), risk_fraction)
        num_lots1 == IF max_loss > 0
                     THEN AtLeastOneLot(Trunc(FDiv(capital_to_risk, FInt(max_loss))))
                     ELSE 1
        risk1 == Frac(100 * num_lots1 * max_loss, self.account_size)
        exceeds == FLess(FMul(self.max_risk_pct, FInt(100)), risk1)
        num_lots2 ==
            IF exceeds
            THEN AtLeastOneLot(
                     Trunc(FDiv(FMul(self.max_risk_pct, FInt(self.account_size)),
                                FInt(max_loss))))
            ELSE num_lots1
        risk2 == Frac(100 * num_lots2 * max_loss, self.account_size)
        warnings1 == IF exceeds THEN Append(warnings, "Risk exceeds max")
                     ELSE warnings
        warnings2 == IF num_lots2 > 10 THEN Append(warnings1, "Large position")
                     ELSE warnings1
    IN  [num_lots |-> num_lots2,
         capital_at_risk |-> num_lots2 * max_loss,
         risk_pct |-> RoundHalfEven(100 * risk2.n, risk2.d),
         warnings |-> warnings2]

\* PositionSizer.calculate_position_size(strategy, win_rate, avg_rr, method,
\* risk_percent, current_volatility, sample_size).  Money in rupees, risk_pct
\* in 1/100 of a percent; raised names an exception that leaves the call.
calculate_position_size(self, strategy, win_rate, avg_rr, method, risk_percent, current_volatility, sample_size) ==
    LET raw_loss == Get(strategy, "max_loss", Num(0))
        max_profit == Get(strategy, "max_profit", Num(0))
    IN  IF ~raw_loss.num THEN [raised |-> "TypeError"]
        ELSE
        LET max_loss == Abs(raw_loss.v)
        IN  IF SizerMaxLossIsZero(max_loss)
            THEN PositionSizeOutput(0, 0, 0, 0, method,
                                    <<"Cannot size: max loss is zero">>, NoneVal)
            ELSE IF avg_rr = NoneVal /\ max_loss > 0 /\ ~max_profit.num
            THEN [raised |-> "TypeError"]
            ELSE
            LET rr == IF avg_rr = NoneVal /\ max_loss > 0
                      THEN Frac(max_profit.v, max_loss)
                      ELSE avg_rr
                useKelly == method = "kelly" /\ win_rate /= NoneVal /\ rr /= NoneVal
                useVol == /\ ~useKelly
                          /\ method = "volatility_adjusted"
                          /\ current_volatility /= NoneVal
                kelly_result == kelly_fraction(self, win_rate, rr, sample_size,
                                               Frac(1, 4))
                risk_fraction ==
                    IF useKelly THEN kelly_result.recommended_fraction
                    ELSE IF useVol
                    THEN volatility_adjusted_size(self, risk_percent,
                                                  current_volatility, FInt(15))
                    ELSE fixed_fraction(self, risk_percent)
                kelly_detail ==
                    IF useKelly
                    THEN [sample_size |-> sample_size,
                          base_fraction |-> Get(kelly_result, "full_kelly", FInt(0)),
                          adjusted_fraction |->
                              Get(kelly_result, "safe_kelly_before_adjustment",
                                  FInt(0)),
                          uncertainty_factor |-> kelly_result.uncertainty_factor]
                    ELSE NoneVal
                warnings ==
                    IF useKelly
                    THEN kelly_result.warnings
                           \o (IF risk_fraction = FInt(0)
                               THEN <<"Kelly fraction is zero - no edge detected">>
                               ELSE <<>>)
                    ELSE IF useVol /\ FLess(FInt(25), current_volatility)
                    THEN <<"High volatility">>
                    ELSE <<>>
                lots == LotsForRisk(self, max_loss, risk_fraction, warnings)
            IN  PositionSizeOutput(lots.capital_at_risk, lots.capital_at_risk,
                                   lots.num_lots, lots.risk_pct, method,
                                   lots.warnings, kelly_detail)

(***************************************************************************)
(* PositionSizer: construction and calls                                   *)
(***************************************************************************)

MaxSample == 110

WinRateInputs == {Frac(w, 100) : w \in {-20, 40, 50, 55, 120}}

AvgRRInputs == {Frac(b, 10) : b \in {-10, 0, 10, 15, 20}}

SafetyFactorInputs == {Frac(1, 4), FInt(1)}

\* sizer = PositionSizer(account_size, max_risk_pct, lot_size)
InitSizer ==
    /\ sizer \in {PositionSizerInit(100000, m, 50) : m \in {2, 10}}
    /\ sizing = NoCall

\* sizer.kelly_fraction(win_rate, avg_rr, sample_size, safety_factor)
KellyFraction ==
    /\ sizing = NoCall
    /\ \E win_rate \in WinRateInputs, avg_rr \in AvgRRInputs,
          sample_size \in 0..MaxSample, safety_factor \in SafetyFactorInputs :
          sizing' =
              [op |-> "kelly_fraction",
               win_rate |-> win_rate,
               avg_rr |-> avg_rr,
               sample_size |-> sample_size,
               safety_factor |-> safety_factor,
               result |-> kelly_fraction(sizer, win_rate, avg_rr, sample_size,
                                         safety_factor)]
    /\ UNCHANGED <<engine, decision, strat, sizer, last_simulation, simulation,
                   __debug__, new_leg, np_random>>

\* sizer.calculate_position_size(strategy, win_rate, avg_rr, method,
\* risk_percent, current_volatility, sample_size)
CalculatePositionSize ==
    /\ sizing = NoCall
    /\ \E strategy \in {Entry(hasP, "max_profit", mp) @@ Entry(hasL, "max_loss", ml) :
                            hasP \in BOOLEAN, hasL \in BOOLEAN,
                            mp \in {Num(3000), Unlimited},
                            ml \in {Num(0), Num(100), Num(-2000), Num(2001),
                                    Num(12000), Unlimited}},
          win_rate \in {NoneVal, Frac(55, 100)},
          avg_rr \in {NoneVal, FInt(0), FInt(2)},
          method \in {"kelly", "fixed", "volatility_adjusted", "martingale"},
          risk_percent \in {FInt(-1), FInt(2), FInt(5)},
          current_volatility \in {NoneVal, FInt(0), FInt(10), FInt(30)},
          sample_size \in {30, 100} :
          sizing' =
              [op |-> "calculate_position_size",
               strategy |-> strategy,
               win_rate |-> win_rate,
               avg_rr |-> avg_rr,
               method |-> method,
               risk_percent |-> risk_percent,
               current_volatility |-> current_volatility,
               sample_size |-> sample_size,
               result |-> calculate_position_size(sizer, strategy, win_rate, avg_rr,
                              method, risk_percent, current_volatility, sample_size)]
    /\ UNCHANGED <<engine, decision, strat, sizer, last_simulation, simulation,
                   __debug__, new_leg, np_random>>

\* sizer.volatility_adjusted_size(base_risk, current_volatility,
\* baseline_volatility)
VolatilityAdjustedSize ==
    /\ sizing = NoCall
    /\ \E base_risk \in {FInt(k) : k \in {-1, 0, 1, 2, 5, 20}},
          current_volatility \in {FInt(k) : k \in {-5, 0, 5, 10, 15, 30, 60}},
          baseline_volatility \in {FInt(k) : k \in {-15, 0, 15, 20}} :
          sizing' =
              [op |-> "volatility_adjusted_size",
               base_risk |-> base_risk,
               current_volatility |-> current_volatility,
               baseline_volatility |-> baseline_volatility,
               result |-> volatility_adjusted_size(sizer, base_risk,
                              current_volatility, baseline_volatility)]
    /\ UNCHANGED <<engine, decision, strat, sizer, last_simulation, simulation,
                   __debug__, new_leg, np_random>>

NextSizer ==
    \/ KellyFraction
    \/ CalculatePositionSize
    \/ VolatilityAdjustedSize

(***************************************************************************)
(* RiskEngine (analysis/risk_engine.py)                                    *)
(*                                                                         *)
(* np.random.random((S, T)) is an S x T matrix of draws from [0, 1) handed *)
(* to the call; equity values are exact fractions; risk_of_ruin is in      *)
(* 1/10000 and probability_of_profit in 1/1000, as the code rounds them.   *)
(***************************************************************************)

\* RiskEngine.__init__
RiskEngineInit == NoneVal

\* numpy's global generator as the process starts: seeded from the operating
\* system's entropy, its stream unknown.
Entropy == [seeded |-> FALSE, seed |-> 0, pos |-> 0]

\* np.random.seed(seed): the generator restarts the stream of that seed.
np_random_seed(seed) == [seeded |-> TRUE, seed |-> seed, pos |-> 0]

\* The k-th draw, from 1, of the stream of a seed: the generator's output is a
\* fixed sequence per seed, stood for here by a fixed mix of high and low draws.
SeedStream(seed, k) ==
    IF ((seed + k * (k + 3)) \div 2) % 3 = 0 THEN Frac(995, 1000) ELSE FInt(0)

\* The generator after n draws.
Advance(state, n) ==
    IF state.seeded THEN [state EXCEPT !.pos = @ + n] ELSE state

\* np.random.random((rows, cols)): the matrices the global generator can
\* return in this state, filled row by row from its stream; any matrix of
\* values when the stream is unknown.
np_random_random(state, rows, cols, values) ==
    IF state.seeded
    THEN {[i \in 1..rows |->
              [j \in 1..cols |->
                  SeedStream(state.seed, state.pos + (i - 1) * cols + j)]]}
    ELSE [1..rows -> [1..cols -> values]]

RECURSIVE AsTuple(_, _)
\* The array f[1..n] with every element computed, once.
AsTuple(f, n) == IF n = 0 THEN <<>> ELSE Append(AsTuple(f, n - 1), f[n])

RECURSIVE CumProd(_, _)
\* np.cumprod of a row: CumProd(row, t) is the product of row[1..t].
CumProd(row, t) == IF t = 0 THEN FInt(1) ELSE FMul(CumProd(row, t - 1), row[t])

\* np.mean of a boolean array of length n, as the fraction count/n.
MeanOfFlags(flags, n) == Frac(Cardinality({i \in 1..n : flags[i]}), n)

PathsRuined_final(equity_paths, ruin_threshold) ==
    [i \in DOMAIN equity_paths |->
        FLess(equity_paths[i][Len(equity_paths[i])], ruin_threshold)]

\* np.any(equity_paths < ruin_threshold, axis=1) (line 111)
PathsRuined(equity_paths, ruin_threshold) ==
    [i \in DOMAIN equity_paths |->
        \E t \in DOMAIN equity_paths[i] : FLess(equity_paths[i][t], ruin_threshold)]

EquityPaths_sum(starting_capital, equity_multipliers, num_simulations, num_trades) ==
    [i \in 1..num_simulations |->
        [t \in 1..(num_trades + 1) |->
            FMul(FInt(starting_capital),
                 IF t = 1 THEN FInt(1)
                 ELSE FAdd(FInt(1),
                           FSub(equity_multipliers[i][t - 1], FInt(1))))]]

\* Lines 89-98: cumprod along the trades, a leading column of ones, times
\* starting_capital.  Rows are paths, column t (from 1) is trade index t-1.
EquityPaths(starting_capital, equity_multipliers, num_simulations, num_trades) ==
    AsTuple([i \in 1..num_simulations |->
                AsTuple([t \in 1..(num_trades + 1) |->
                            FMul(FInt(starting_capital),
                                 CumProd(equity_multipliers[i], t - 1))],
                        num_trades + 1)],
            num_simulations)

\* A float that is not a number: 0/0 and everything computed from it.
NaN == [nan |-> TRUE]

RECURSIVE MaxDrawdown(_, _, _, _, _)
\* Lines 165-171 along one row, from column t on: running_max is
\* np.maximum.accumulate up to column t-1 and least the smallest of
\* (equity - running_max) / running_max * 100 so far; nan once a running
\* maximum is 0.
MaxDrawdown(row, t, last, running_max, least) ==
    IF t > last THEN least
    ELSE LET equity == row[t]
             peak == IF t = 1 THEN equity ELSE FMax(running_max, equity)
             drawdown == FMul(FDiv(FSub(equity, peak), peak), FInt(100))
         IN  IF peak.n = 0 THEN NaN
             ELSE MaxDrawdown(row, t + 1, last, peak,
                              IF t = 1 THEN drawdown ELSE FMin(least, drawdown))

\* RiskEngine._calculate_drawdowns(equity_paths): the max drawdown of each
\* path, in percent.
_calculate_drawdowns(equity_paths, num_columns) ==
    AsTuple([i \in DOMAIN equity_paths |->
                MaxDrawdown(equity_paths[i], 1, num_columns, FInt(0), FInt(0))],
            Len(equity_paths))

RECURSIVE FSum(_, _)
\* The sum of the fractions values[1..n].
FSum(values, n) == IF n = 0 THEN FInt(0) ELSE FAdd(FSum(values, n - 1), values[n])

\* round(x, 2) of a float, in 1/100: half to even on the second decimal,
\* one decimal digit at a time; nan stays nan.
RoundCenti(x) ==
    IF x = NaN THEN NaN
    ELSE LET a == Abs(x.n)
             r1 == 10 * (a % x.d)
             r2 == 10 * (r1 % x.d)
             whole == 100 * (a \div x.d) + 10 * (r1 \div x.d) + (r2 \div x.d)
             rest == r2 % x.d
             rounded == IF 2 * rest < x.d THEN whole
                        ELSE IF 2 * rest > x.d THEN whole + 1
                        ELSE IF whole % 2 = 0 THEN whole ELSE whole + 1
         IN  IF x.n < 0 THEN -rounded ELSE rounded

\* The clamped arguments of lines 63-65.
SimulationValidation(win_rate, avg_rr, risk_per_trade) ==
    [win_rate |-> FClip(win_rate, Frac(1, 100), Frac(99, 100)),
     avg_rr |-> FMax(avg_rr, Frac(1, 10)),
     risk_per_trade |-> FClip(risk_per_trade, Frac(1, 1000), Frac(1, 10))]

\* 1 + returns (lines 73-86) for a matrix of draws.
EquityMultipliers(v, random_outcomes) ==
    [i \in DOMAIN random_outcomes |->
        [j \in DOMAIN random_outcomes[i] |->
            IF FLess(random_outcomes[i][j], v.win_rate)
            THEN FAdd(FInt(1), FMul(v.risk_per_trade, v.avg_rr))
            ELSE FSub(FInt(1), v.risk_per_trade)]]

\* RiskEngine.simulate_equity_paths(...) with the draws random_outcomes:
\* <<result, last_simulation>>.  Of the derived statistics the result keeps
\* risk_of_ruin, probability_of_profit and the two drawdowns (in 1/100 %).
simulate_equity_paths(win_rate, avg_rr, risk_per_trade, num_simulations, num_trades, starting_capital, random_outcomes) ==
    LET v == SimulationValidation(win_rate, avg_rr, risk_per_trade)
        equity_multipliers == EquityMultipliers(v, random_outcomes)
        equity_paths == EquityPaths(starting_capital, equity_multipliers,
                                    num_simulations, num_trades)
        final_equity == [i \in 1..num_simulations |-> equity_paths[i][num_trades + 1]]
        ruin_threshold == FMul(FInt(starting_capital), Frac(1, 2))
        paths_ruined == PathsRuined(equity_paths, ruin_threshold)
        risk_of_ruin == MeanOfFlags(paths_ruined, num_simulations)
        prob_profit ==
            MeanOfFlags([i \in 1..num_simulations |->
                            FLess(FInt(starting_capital), final_equity[i])],
                        num_simulations)
        max_drawdowns == _calculate_drawdowns(equity_paths, num_trades + 1)
        some_nan == \E i \in 1..num_simulations : max_drawdowns[i] = NaN
        avg_max_drawdown ==
            IF some_nan THEN NaN
            ELSE FMul(FSum(max_drawdowns, num_simulations),
                      Frac(1, num_simulations))
        \* np.max(max_drawdowns) (line 117)
        worst_drawdown ==
            IF some_nan THEN NaN
            ELSE CHOOSE x \in {max_drawdowns[i] : i \in 1..num_simulations} :
                     \A i \in 1..num_simulations : FLeq(max_drawdowns[i], x)
    IN  <<[risk_of_ruin |-> RoundHalfEven(10000 * risk_of_ruin.n, risk_of_ruin.d),
           avg_max_drawdown_pct |-> RoundCenti(avg_max_drawdown),
           worst_drawdown_pct |-> RoundCenti(worst_drawdown),
           probability_of_profit |->
               RoundHalfEven(1000 * prob_profit.n, prob_profit.d),
           equity_paths |-> equity_paths,
           starting_capital |-> starting_capital,
           num_simulations |-> num_simulations,
           num_trades |-> num_trades],
          [equity_paths |-> equity_paths,
           params |-> [win_rate |-> v.win_rate,
                       avg_rr |-> v.avg_rr,
                       risk_per_trade |-> v.risk_per_trade,
                       num_simulations |-> num_simulations,
                       num_trades |-> num_trades,
                       starting_capital |-> starting_capital]]>>

\* An optional array or list argument that was passed: None otherwise.
Some(value) == [value |-> value]

\* The four scenarios of lines 285-290, in the order of the dict.
DefaultStressScenarios ==
    <<<<"base_case", FInt(0)>>, <<"pessimistic", Frac(-10, 100)>>,
      <<"optimistic", Frac(10, 100)>>, <<"worst_case", Frac(-20, 100)>>>>

\* num_simulations=500 and num_trades=100 of lines 302-303, scaled down to
\* matrices the model can hold.
StressSims == 1

StressTrades == 1

AfterScenario_restored(self, simulated) == self

\* self.last_simulation once a scenario's simulate_equity_paths returned
\* (line 126, reached from line 298)
AfterScenario(self, simulated) == simulated[2]

RECURSIVE RunScenarios(_, _, _, _, _, _)
\* The loop of lines 294-312 over scenarios[1..k], scenario j simulated with
\* the draws random_outcomes[j]: the results so far and self.last_simulation.
RunScenarios(self, base_win_rate, avg_rr, scenarios, random_outcomes, k) ==
    IF k = 0 THEN [results |-> <<>>, last_simulation |-> self]
    ELSE LET before == RunScenarios(self, base_win_rate, avg_rr, scenarios,
                                    random_outcomes, k - 1)
             adjusted_wr == FClip(FAdd(base_win_rate, scenarios[k][2]),
                                  Frac(5, 100), Frac(95, 100))
             sim_result == simulate_equity_paths(adjusted_wr, avg_rr, Frac(2, 100),
                               StressSims, StressTrades, 100000,
                               random_outcomes[k])
         IN  [results |->
                  Append(before.results,
                         [scenario |-> scenarios[k][1],
                          win_rate |-> adjusted_wr,
                          risk_of_ruin |-> sim_result[1].risk_of_ruin]),
              last_simulation |-> AfterScenario(before.last_simulation, sim_result)]

\* stress_scenarios, or the default ones for None (lines 284-290)
ScenariosOf(stress_scenarios) ==
    IF stress_scenarios = NoneVal THEN DefaultStressScenarios
    ELSE stress_scenarios.value

\* RiskEngine.stress_test(base_win_rate, avg_rr, stress_scenarios) with the
\* draws of its simulations: <<results, last_simulation>>.  Of each
\* scenario's statistics the results keep win_rate and risk_of_ruin.
stress_test(self, base_win_rate, avg_rr, stress_scenarios, random_outcomes) ==
    LET scenarios == ScenariosOf(stress_scenarios)
        run == RunScenarios(self, base_win_rate, avg_rr, scenarios,
                            random_outcomes, Len(scenarios))
    IN  <<run.results, run.last_simulation>>

RECURSIVE SortFractions(_)
\* The values of a column in ascending order.
SortFractions(values) ==
    IF values = <<>> THEN <<>>
    ELSE LET x == Head(values)
             rest == SortFractions(Tail(values))
         IN  SelectSeq(rest, LAMBDA y : FLess(y, x)) \o <<x>>
                \o SelectSeq(rest, LAMBDA y : ~FLess(y, x))

\* np.percentile(values, p) of one column: linear interpolation between the
\* two sorted values around rank p/100 * (n - 1).
np_percentile(values, p) ==
    LET sorted == SortFractions(values)
        rank == p * (Len(values) - 1)
        below == rank \div 100
        part == rank % 100
    IN  IF part = 0 THEN sorted[below + 1]
        ELSE FAdd(sorted[below + 1],
                  FMul(Frac(part, 100),
                       FSub(sorted[below + 2], sorted[below + 1])))

PathsSource_cached(self, equity_paths) ==
    IF self /= NoneVal THEN self.equity_paths ELSE equity_paths.value

\* The matrix get_equity_percentiles works on (lines 329, 332)
PathsSource(self, equity_paths) ==
    IF equity_paths = NoneVal THEN self.equity_paths ELSE equity_paths.value

\* RiskEngine.get_equity_percentiles(equity_paths, percentiles): the rows of
\* the DataFrame, row t the percentile columns and 'trade' = t - 1.
get_equity_percentiles(self, equity_paths, percentiles) ==
    IF equity_paths = NoneVal /\ self = NoneVal THEN [raised |-> "ValueError"]
    ELSE LET paths == PathsSource(self, equity_paths)
             bands == IF percentiles = NoneVal THEN <<5, 25, 50, 75, 95>>
                      ELSE percentiles.value
             num_trades == Len(paths[1])
         IN  [t \in 1..num_trades |->
                 [trade |-> t - 1,
                  p |-> [q \in {bands[j] : j \in DOMAIN bands} |->
                            np_percentile([i \in 1..Len(paths) |-> paths[i][t]],
                                          q)]]]

SafeRisk_uncapped(risk_per_trade, kelly) ==
    IF FLess(FInt(0), kelly) THEN FMul(kelly, Frac(1, 4)) ELSE Frac(1, 100)

\* min(risk_per_trade, kelly * 0.25) if kelly > 0 else 0.01 (line 384)
SafeRisk(risk_per_trade, kelly) ==
    IF FLess(FInt(0), kelly) THEN FMin(risk_per_trade, FMul(kelly, Frac(1, 4)))
    ELSE Frac(1, 100)

\* quick_risk_assessment(win_rate, avg_rr, risk_per_trade): ev_per_trade and
\* kelly_fraction in 1/1000, recommended_risk in 1/10000, as rounded.
quick_risk_assessment(win_rate, avg_rr, risk_per_trade) ==
    LET ev_per_trade == FSub(FMul(win_rate, avg_rr), FSub(FInt(1), win_rate))
        kelly == FMax(FInt(0),
                      IF FLess(FInt(0), avg_rr)
                      THEN FDiv(FSub(FMul(win_rate, avg_rr), FSub(FInt(1), win_rate)),
                                avg_rr)
                      ELSE FInt(0))
        recommendation ==
            IF FLess(Frac(30, 100), ev_per_trade) THEN "Excellent edge"
            ELSE IF FLess(Frac(15, 100), ev_per_trade) THEN "Good edge"
            ELSE IF FLess(FInt(0), ev_per_trade) THEN "Slight edge"
            ELSE "Negative expectancy - DO NOT TRADE"
        safe_risk == SafeRisk(risk_per_trade, kelly)
    IN  [ev_per_trade |-> RoundTo(ev_per_trade, 1000),
         kelly_fraction |-> RoundTo(kelly, 1000),
         recommended_risk |-> RoundTo(safe_risk, 10000),
         recommendation |-> recommendation,
         is_profitable |-> FLess(FInt(0), ev_per_trade)]

(***************************************************************************)
(* RiskEngine: construction and calls                                      *)
(***************************************************************************)

MaxSims == 2

MaxTrades == 8

\* The most draws one call takes (num_simulations * num_trades).
MaxDraws == 8

\* A draw below every clamped win rate, and one at or above every one.
DrawValues == {FInt(0), Frac(995, 1000)}

RECURSIVE BoundedPow(_, _, _)
\* base^e, or limit + 1 once it exceeds limit
BoundedPow(base, e, limit) ==
    IF e = 0 THEN 1
    ELSE LET q == BoundedPow(base, e - 1, limit)
         IN  IF q > limit \div base THEN limit + 1 ELSE q * base

\* The model's integers hold every equity value of num_trades trades.
Representable(v, num_trades) ==
    LET win == FAdd(FInt(1), FMul(v.risk_per_trade, v.avg_rr))
        loss == FSub(FInt(1), v.risk_per_trade)
        m == Max(Max(win.n, win.d), Max(loss.n, loss.d))
    IN  BoundedPow(m, num_trades, 1000000000) <= 1000000000

\* engine = RiskEngine()
InitRisk ==
    /\ last_simulation = RiskEngineInit
    /\ simulation = NoCall
    /\ np_random = Entropy

\* engine.simulate_equity_paths(win_rate, avg_rr, risk_per_trade,
\* num_simulations, num_trades, starting_capital) with arguments from the
\* given sets.
SimulateCall(win_rates, avg_rrs, risks, max_trades, capitals) ==
    \E win_rate \in win_rates, avg_rr \in avg_rrs, risk_per_trade \in risks,
       num_simulations \in 1..MaxSims, num_trades \in 0..max_trades,
       starting_capital \in capitals :
          /\ num_simulations * num_trades <= MaxDraws
          /\ Representable(SimulationValidation(win_rate, avg_rr, risk_per_trade),
                           num_trades)
          /\ \E random_outcomes \in
                    np_random_random(np_random, num_simulations, num_trades,
                                     DrawValues) :
                LET r == simulate_equity_paths(win_rate, avg_rr, risk_per_trade,
                             num_simulations, num_trades, starting_capital,
                             random_outcomes)
                IN  /\ simulation' =
                           [op |-> "simulate_equity_paths",
                            win_rate |-> win_rate,
                            avg_rr |-> avg_rr,
                            risk_per_trade |-> risk_per_trade,
                            random_outcomes |-> random_outcomes,
                            np_random |-> np_random,
                            result |-> r[1]]
                    /\ last_simulation' = r[2]
                    /\ np_random' = Advance(np_random,
                                            num_simulations * num_trades)

\* One call of simulate_equity_paths on a new engine.
SimulateEquityPaths ==
    /\ simulation = NoCall
    /\ SimulateCall({Frac(55, 100)}, {FInt(0), FInt(2), FInt(10)},
                    {FInt(0), Frac(1, 50), Frac(1, 2)}, MaxTrades, {0, 100000})
    /\ UNCHANGED <<engine, decision, strat, sizer, sizing, __debug__, new_leg>>

MaxOtherDraws == 2

\* np.random.seed(seed), as a caller or a test does before simulating
SeedGenerator ==
    /\ simulation = NoCall
    /\ \E seed \in {7, 42} : np_random' = np_random_seed(seed)
    /\ UNCHANGED <<engine, decision, strat, sizer, sizing, last_simulation,
                   simulation, __debug__, new_leg>>

\* np.random.random() anywhere else in the process: one draw from the same
\* global generator
OtherDraw ==
    /\ simulation = NoCall
    /\ np_random.pos < MaxOtherDraws
    /\ np_random' = Advance(np_random, 1)
    /\ UNCHANGED <<engine, decision, strat, sizer, sizing, last_simulation,
                   simulation, __debug__, new_leg>>

\* quick_risk_assessment(win_rate, avg_rr, risk_per_trade)
QuickRiskAssessment ==
    /\ simulation = NoCall
    /\ \E win_rate \in {Frac(w, 100) : w \in {-20, 0, 30, 50, 55, 99, 150}},
          avg_rr \in {Frac(b, 10) : b \in {-10, 0, 1, 10, 15, 20}},
          risk_per_trade \in {Frac(1, 1000), Frac(1, 50), Frac(1, 2)} :
          simulation' =
              [op |-> "quick_risk_assessment",
               win_rate |-> win_rate,
               avg_rr |-> avg_rr,
               risk_per_trade |-> risk_per_trade,
               result |-> quick_risk_assessment(win_rate, avg_rr, risk_per_trade)]
    /\ UNCHANGED <<engine, decision, strat, sizer, sizing, last_simulation,
                   __debug__, new_leg, np_random>>

NextRisk ==
    \/ SimulateEquityPaths
    \/ QuickRiskAssessment
    \/ SeedGenerator
    \/ OtherDraw

(***************************************************************************)
(* RiskEngine: one engine called several times                             *)
(***************************************************************************)

\* The most trades of a simulation that other calls follow.
MaxSessionTrades == 2

\* engine.simulate_equity_paths(...), the first call on the engine
SimulateInSession ==
    /\ simulation = NoCall
    /\ SimulateCall({Frac(55, 100)}, {FInt(2)}, {Frac(1, 50)}, MaxSessionTrades,
                    {100000})
    /\ UNCHANGED <<engine, decision, strat, sizer, sizing, __debug__, new_leg>>

\* engine.stress_test(base_win_rate, avg_rr, stress_scenarios)
StressTest ==
    /\ simulation.op \in {"none", "simulate_equity_paths"}
    /\ \E base_win_rate \in {Frac(55, 100)}, avg_rr \in {FInt(2)},
          stress_scenarios \in {NoneVal, Some(<<>>),
                                Some(<<<<"crash", Frac(-1, 2)>>>>)} :
          LET n == Len(ScenariosOf(stress_scenarios))
              draws(k) == np_random_random(
                              Advance(np_random, (k - 1) * StressSims * StressTrades),
                              StressSims, StressTrades, DrawValues)
          IN  \E random_outcomes \in
                     [1..n -> [1..StressSims -> [1..StressTrades -> DrawValues]]] :
                 /\ \A k \in 1..n : random_outcomes[k] \in draws(k)
                 /\ LET r == stress_test(last_simulation, base_win_rate, avg_rr,
                                         stress_scenarios, random_outcomes)
                    IN  /\ simulation' =
                               [op |-> "stress_test",
                                base_win_rate |-> base_win_rate,
                                avg_rr |-> avg_rr,
                                stress_scenarios |-> stress_scenarios,
                                random_outcomes |-> random_outcomes,
                                result |-> r[1]]
                        /\ last_simulation' = r[2]
                 /\ np_random' = Advance(np_random,
                                         n * StressSims * StressTrades)
    /\ UNCHANGED <<engine, decision, strat, sizer, sizing, __debug__, new_leg>>

\* Matrices a caller passes to get_equity_percentiles.
ExplicitPaths ==
    {<<<<FInt(7)>>>>,
     <<<<FInt(100), FInt(90), FInt(120)>>, <<FInt(100), FInt(110), FInt(80)>>>>,
     <<<<FInt(10), FInt(30)>>, <<FInt(10), FInt(20)>>, <<FInt(10), FInt(5)>>>>}

\* engine.get_equity_percentiles(equity_paths, percentiles)
GetEquityPercentiles ==
    /\ simulation.op /= "get_equity_percentiles"
    /\ \E equity_paths \in {NoneVal} \cup {Some(m) : m \in ExplicitPaths},
          percentiles \in {NoneVal, Some(<<50>>)} :
          simulation' =
              [op |-> "get_equity_percentiles",
               equity_paths |-> equity_paths,
               percentiles |-> percentiles,
               result |-> get_equity_percentiles(last_simulation, equity_paths,
                                                 percentiles)]
    /\ UNCHANGED <<engine, decision, strat, sizer, sizing, last_simulation,
                   __debug__, new_leg, np_random>>

NextSession ==
    \/ SimulateInSession
    \/ StressTest
    \/ GetEquityPercentiles

(***************************************************************************)
(* Specifications, one per component                                       *)
(***************************************************************************)

\* What a specification of one component holds the other components at.
IdleDecision == engine = DecisionEngineInit(EmptyDict) /\ decision = NoCall

IdleStrategy == strat = StrategyInit(26000, 50) /\ __debug__ = TRUE /\ InitLeg

IdleSizer == sizer = PositionSizerInit(100000, 3, 50) /\ sizing = NoCall

DecisionStart == InitDecision /\ IdleStrategy /\ IdleSizer /\ InitRisk

StrategyStart ==
    IdleDecision /\ InitPython /\ InitStrategy /\ InitLeg /\ IdleSizer /\ InitRisk

LegStart ==
    /\ IdleDecision /\ InitPython /\ strat = StrategyInit(26000, 50) /\ InitLeg
    /\ IdleSizer /\ InitRisk

SizerStart == IdleDecision /\ IdleStrategy /\ InitSizer /\ InitRisk

RiskStart == IdleDecision /\ IdleStrategy /\ IdleSizer /\ InitRisk

SpecDecision == DecisionStart /\ [][NextDecision]_vars

SpecStrategy == StrategyStart /\ [][NextStrategy]_vars

SpecLeg == LegStart /\ [][NextLeg]_vars

SpecSizer == SizerStart /\ [][NextSizer]_vars

SpecRisk == RiskStart /\ [][NextRisk]_vars

SpecSession == RiskStart /\ [][NextSession]_vars

Init ==
    InitDecision /\ InitPython /\ InitStrategy /\ InitLeg /\ InitSizer /\ InitRisk

Next ==
    NextDecision \/ NextStrategy \/ NextLeg \/ NextSizer \/ NextRisk \/ NextSession

Spec == Init /\ [][Next]_vars

(***************************************************************************)
(* Properties of DecisionEngine, checked under SpecDecision                *)
(***************************************************************************)

\* C1: whenever generate_trade_decision is called with an ev_metrics whose
\* expected_value is negative, the decision it returns has trade_allowed =
\* False, whatever the score, vol edge, risk:reward and risk metrics are.
C1_NegativeEvNeverAllowed ==
    (/\ decision.op = "generate_trade_decision"
     /\ decision.ev_metrics /= NoneVal
     /\ Get(decision.ev_metrics, "expected_value", 0) < 0)
        => decision.result.trade_allowed = FALSE

\* A negative EV is the only thing wrong with the trade, and it is rejected.
C1_Witness ==
    /\ decision.op = "generate_trade_decision"
    /\ decision.vol_edge /= NoneVal
    /\ Get(decision.vol_edge, "vol_edge_score", 0) = 151
    /\ decision.ev_metrics = [expected_value |-> -5000, risk_reward_ratio |-> 150]
    /\ decision.trade_score /= NoneVal
    /\ Get(decision.trade_score, "trade_score", 50) = 75
    /\ decision.risk_metrics = [risk_of_ruin |-> 0]
    /\ decision.result.risk_flags = <<"Negative EV">>
    /\ decision.result.trade_allowed = FALSE

\* C2: generate_trade_decision returns trade_allowed = True exactly when
\* expected_value > 0, trade_score >= the configured min_trade_score,
\* risk_of_ruin (when risk metrics are supplied) <= the configured
\* max_risk_of_ruin, and fewer than 3 risk flags accumulated.
C2_AllowedExactlyWithinConfiguredLimits ==
    (/\ decision.op = "generate_trade_decision"
     /\ decision.vol_edge /= NoneVal
     /\ decision.ev_metrics /= NoneVal
     /\ decision.trade_score /= NoneVal)
        => (decision.result.trade_allowed
              <=> /\ Get(decision.ev_metrics, "expected_value", 0) > 0
                  /\ Get(decision.trade_score, "trade_score", 50)
                        >= engine.min_trade_score
                  /\ Truthy(decision.risk_metrics)
                        => Get(decision.risk_metrics, "risk_of_ruin", 0)
                              <= engine.max_risk_of_ruin
                  /\ Len(decision.result.risk_flags) < 3)

\* C4: compute_expected_value on a strategy whose max_loss is 0 or missing
\* returns the explicit result {expected_value 0.0, positive_probability 0.5,
\* risk_reward_ratio 0.0, error 'Max loss is zero'}, for every max_profit,
\* breakevens, range_probs, spot_price and days_to_expiry.
C4_ZeroMaxLossExplicitResult ==
    (/\ decision.op = "compute_expected_value"
     /\ Get(decision.strategy, "max_loss", Num(0)) = Num(0))
        => decision.result = [expected_value |-> 0,
                              positive_probability |-> 500,
                              risk_reward_ratio |-> 0,
                              error |-> "Max loss is zero"]

\* max_loss is missing, max_profit is "Unlimited" and the standard move is
\* zero: every later step of the function would fail or give nan.
C4_Witness ==
    /\ decision.op = "compute_expected_value"
    /\ decision.strategy = ("max_profit" :> Unlimited) @@ ("breakevens" :> <<26000>>)
    /\ decision.range_probs = NoneVal
    /\ decision.days_to_expiry = 0
    /\ decision.result.error = "Max loss is zero"

\* C10: validate_with_directional_signal returns allowed = True only for
\* LONG_CALL with CALL_BUY, LONG_PUT with PUT_BUY, or a neutral category
\* (IRON_CONDOR, STRANGLE, BUTTERFLY); every other pair of signal and
\* strategy_type, a strategy_type outside the five included, is not approved.
C10_ApprovedOnlyWhenSignalAgrees ==
    (/\ decision.op = "validate_with_directional_signal"
     /\ decision.directional_signal /= NoneVal
     /\ decision.result.allowed)
        => \/ /\ decision.strategy_type = "LONG_CALL"
              /\ decision.directional_signal.signal = "CALL_BUY"
           \/ /\ decision.strategy_type = "LONG_PUT"
              /\ decision.directional_signal.signal = "PUT_BUY"
           \/ decision.strategy_type \in {"IRON_CONDOR", "STRANGLE", "BUTTERFLY"}

(***************************************************************************)
(* Properties of Strategy, checked under SpecStrategy                      *)
(***************************************************************************)

ReferenceLegs ==
    {OptionLeg("PE", "BUY", 25700, 10, 1),
     OptionLeg("PE", "SELL", 25800, 40, 1),
     OptionLeg("CE", "SELL", 26200, 40, 1),
     OptionLeg("CE", "BUY", 26500, 10, 1)}

\* The reference structure, its four legs added in any order.
IsReferenceStructure(s) ==
    /\ s.spot_price = 26000
    /\ s.lot_size = 50
    /\ Len(s.legs) = 4
    /\ {s.legs[i] : i \in 1..4} = ReferenceLegs

\* Spots from far below the lowest strike to far above the highest.
SpotGrid == {0, 13000, 39000, 52000} \cup {25000 + 10 * k : k \in 0..200}

\* C3: for the reference four-leg structure get_net_premium gives net +3000,
\* compute_payoff_at_expiry gives 3000 at spot 26000, which no spot exceeds,
\* and -2000 at spot 25650, and calculate_breakevens returns exactly
\* [25740.0, 26260.0].
C3_ReferenceStructure ==
    IsReferenceStructure(strat)
        => /\ get_net_premium(strat)[3] = 3000
           /\ compute_payoff_at_expiry(strat, <<26000, 25650>>) = <<3000, -2000>>
           /\ \A x \in SpotGrid : compute_payoff_at_expiry(strat, <<x>>)[1] <= 3000
           /\ calculate_breakevens(strat) = <<2574000, 2626000>>

\* The four legs in the order the claim lists them, with both sign changes of
\* the payoff found strictly inside a sampling interval.
C3_Witness ==
    /\ IsReferenceStructure(strat)
    /\ strat.legs[1] = OptionLeg("PE", "BUY", 25700, 10, 1)
    /\ strat.legs[4] = OptionLeg("CE", "BUY", 26500, 10, 1)
    /\ Cardinality(SignChanges(strat)) = 2
    /\ \A idx \in SignChanges(strat) :
          /\ PayoffScaled(strat, SpotRange(strat, idx), SampleDen) /= 0
          /\ PayoffScaled(strat, SpotRange(strat, idx + 1), SampleDen) /= 0

\* C9: for a strategy with a single BUY leg, compute_payoff_at_expiry(spot) is
\* (intrinsic - entry_price) * quantity * lot_size with intrinsic =
\* max(spot - strike, 0) for CE and max(strike - spot, 0) for PE, and it is
\* non-decreasing in spot for a CE leg and non-increasing for a PE leg.
C9_SingleLongLeg ==
    (Len(strat.legs) = 1 /\ strat.legs[1].position = "BUY")
        => LET leg == strat.legs[1]
               intrinsic(x) == IF leg.type = "CE" THEN Max(x - leg.strike, 0)
                               ELSE Max(leg.strike - x, 0)
               payoff(x) == compute_payoff_at_expiry(strat, <<x>>)[1]
           IN  /\ \A x \in SpotGrid :
                     payoff(x) = (intrinsic(x) - leg.entry_price) * leg.quantity
                                     * strat.lot_size
               /\ \A x \in SpotGrid, y \in SpotGrid :
                     x <= y => IF leg.type = "CE" THEN payoff(x) <= payoff(y)
                               ELSE payoff(x) >= payoff(y)

\* Two lots of a long call, in the money at 26500: (500 - 150) * 2 * 50.
C9_Witness ==
    /\ strat.lot_size = 50
    /\ strat.legs = <<OptionLeg("CE", "BUY", 26000, 150, 2)>>
    /\ compute_payoff_at_expiry(strat, <<26500, 25000>>) = <<35000, -15000>>

(***************************************************************************)
(* Properties of PositionSizer, checked under SpecSizer                    *)
(***************************************************************************)

C8_NoEdgeNoRisk ==
    (/\ sizing.op = "kelly_fraction"
     /\ FLess(FInt(0), sizing.avg_rr)
     /\ LET p == FClip(sizing.win_rate, Frac(1, 100), Frac(99, 100))
        IN  FLeq(FMul(p, sizing.avg_rr), FSub(FInt(1), p)))
        => /\ sizing.result.full_kelly = FInt(0)
           /\ sizing.result.recommended_fraction = FInt(0)
           /\ sizing.result.capital_at_risk = FInt(0)

\* A losing proposition (win rate 0.4 at 1:1) on a full sample at full Kelly.
C8_Witness ==
    /\ sizing.op = "kelly_fraction"
    /\ sizing.win_rate = Frac(40, 100)
    /\ sizing.avg_rr = FInt(1)
    /\ sizing.sample_size = 100
    /\ sizing.safety_factor = FInt(1)
    /\ sizing.result.capital_at_risk = FInt(0)

(***************************************************************************)
(* Properties of RiskEngine, checked under SpecRisk                        *)
(***************************************************************************)

\* C5: risk_of_ruin in the result of simulate_equity_paths is the fraction
\* (rounded to four decimals) of the paths that have a column, at any trade
\* index, strictly below 50% of starting_capital; a path that dips below and
\* later recovers counts as ruined.
C5_RuinAtAnyPoint ==
    simulation.op = "simulate_equity_paths"
        => LET r == simulation.result
               half == Frac(r.starting_capital, 2)
               ruined == {i \in 1..r.num_simulations :
                            \E t \in 1..(r.num_trades + 1) :
                                FLess(r.equity_paths[i][t], half)}
           IN  r.risk_of_ruin
                  = RoundHalfEven(10000 * Cardinality(ruined), r.num_simulations)

\* One path of eight trades: seven losses at 10% take it below half, the
\* final win at 10:1 doubles it to above half; it is counted as ruined.
C5_Witness ==
    /\ simulation.op = "simulate_equity_paths"
    /\ simulation.result.num_simulations = 1
    /\ simulation.result.num_trades = 8
    /\ FLess(simulation.result.equity_paths[1][8], FInt(50000))
    /\ FLess(FInt(50000), simulation.result.equity_paths[1][9])
    /\ simulation.result.risk_of_ruin = 10000

\* C6: the equity_paths matrix of simulate_equity_paths has num_simulations
\* rows of num_trades + 1 columns, its first column is starting_capital, and
\* each later column is the previous one times (1 + risk_per_trade * avg_rr)
\* or times (1 - risk_per_trade), for the validated risk_per_trade and avg_rr.
C6_EquityPathsShape ==
    simulation.op = "simulate_equity_paths"
        => LET r == simulation.result
               params == last_simulation.params
               win == FAdd(FInt(1), FMul(params.risk_per_trade, params.avg_rr))
               loss == FSub(FInt(1), params.risk_per_trade)
           IN  /\ DOMAIN r.equity_paths = 1..r.num_simulations
               /\ \A i \in 1..r.num_simulations :
                     /\ DOMAIN r.equity_paths[i] = 1..(r.num_trades + 1)
                     /\ r.equity_paths[i][1] = FInt(r.starting_capital)
                     /\ \A t \in 2..(r.num_trades + 1) :
                           \/ r.equity_paths[i][t]
                                 = FMul(r.equity_paths[i][t - 1], win)
                           \/ r.equity_paths[i][t]
                                 = FMul(r.equity_paths[i][t - 1], loss)

\* Two paths of three trades, the first winning, losing, then winning at
\* 2% risk and 2:1.
C6_Witness ==
    /\ simulation.op = "simulate_equity_paths"
    /\ simulation.result.num_simulations = 2
    /\ simulation.result.num_trades = 3
    /\ simulation.result.equity_paths[1]
          = <<FInt(100000), FInt(104000), FInt(101920), Frac(2649920, 25)>>

(***************************************************************************)
(* Further properties of DecisionEngine, checked under SpecDecision        *)
(***************************************************************************)

\* C11: validate_with_directional_signal returns allowed = False whenever
\* risk_of_ruin exceeds the configured max_risk_of_ruin, for every signal,
\* strategy_type and vol_edge_score; at or below the ceiling an aligned
\* directional trade is approved, and risk of ruin adds a warning only above
\* 0.10.
C11_RuinCeilingOverrides ==
    (/\ decision.op = "validate_with_directional_signal"
     /\ decision.directional_signal /= NoneVal)
        => LET ror == decision.risk_of_ruin
               sig == decision.directional_signal.signal
               aligned == \/ decision.strategy_type = "LONG_CALL" /\ sig = "CALL_BUY"
                          \/ decision.strategy_type = "LONG_PUT" /\ sig = "PUT_BUY"
           IN  /\ ror > engine.max_risk_of_ruin => ~decision.result.allowed
               /\ (ror <= engine.max_risk_of_ruin /\ aligned)
                     => decision.result.allowed
               /\ (ror <= engine.max_risk_of_ruin /\ ror <= 1000)
                     => decision.result.warnings
                           \in {<<>>, <<"Consider taking directional trade instead">>}

\* CALL_BUY with LONG_CALL at a risk of ruin of 0.08 is approved without a
\* warning under the default ceiling.
C11_Witness ==
    /\ decision.op = "validate_with_directional_signal"
    /\ decision.directional_signal /= NoneVal
    /\ engine.max_risk_of_ruin = DefaultMaxRiskOfRuin
    /\ decision.strategy_type = "LONG_CALL"
    /\ decision.directional_signal.signal = "CALL_BUY"
    /\ decision.risk_of_ruin = 800
    /\ decision.result.allowed
    /\ decision.result.warnings = <<>>

(***************************************************************************)
(* Properties of OptionLeg, checked under SpecLeg and SpecStrategy         *)
(***************************************************************************)

\* C12: constructing an OptionLeg with type outside {CE, PE}, position outside
\* {BUY, SELL}, strike <= 0, entry_price < 0 or quantity <= 0 fails with a
\* ValidationError and yields no leg object; a construction with all five
\* fields valid yields a leg with exactly the given field values.
C12_InvalidLegFailsAtConstruction ==
    new_leg.op = "OptionLeg"
        => IF /\ new_leg.type \in {"CE", "PE"}
              /\ new_leg.position \in {"BUY", "SELL"}
              /\ new_leg.strike > 0
              /\ new_leg.entry_price >= 0
              /\ new_leg.quantity > 0
           THEN /\ new_leg.result.raised = "none"
                /\ new_leg.result.obj.type = new_leg.type
                /\ new_leg.result.obj.position = new_leg.position
                /\ new_leg.result.obj.strike = new_leg.strike
                /\ new_leg.result.obj.entry_price = new_leg.entry_price
                /\ new_leg.result.obj.quantity = new_leg.quantity
           ELSE new_leg.result.raised = "ValidationError"

\* C17: an OptionLeg cannot change once validated, so in every reachable
\* state every leg in a Strategy's leg list has type in {CE, PE}, position in
\* {BUY, SELL}, strike > 0, entry_price >= 0 and quantity > 0.
C17_LegsStayValid ==
    \A i \in DOMAIN strat.legs :
        /\ strat.legs[i].type \in {"CE", "PE"}
        /\ strat.legs[i].position \in {"BUY", "SELL"}
        /\ strat.legs[i].strike > 0
        /\ strat.legs[i].entry_price >= 0
        /\ strat.legs[i].quantity > 0

(***************************************************************************)
(* Further properties of RiskEngine, checked under SpecRisk                *)
(***************************************************************************)

\* C16: a call of simulate_equity_paths made with a seeded generator returns
\* what the call with the same arguments returns right after seeding with the
\* same seed, whatever other random draws the process made before the call.
C16_DeterministicPerCall ==
    (simulation.op = "simulate_equity_paths" /\ simulation.np_random.seeded)
        => LET r == simulation.result
               fresh == CHOOSE m \in np_random_random(
                                        np_random_seed(simulation.np_random.seed),
                                        r.num_simulations, r.num_trades,
                                        DrawValues) : TRUE
           IN  r = simulate_equity_paths(simulation.win_rate, simulation.avg_rr,
                       simulation.risk_per_trade, r.num_simulations, r.num_trades,
                       r.starting_capital, fresh)[1]

(***************************************************************************)
(* Further properties of PositionSizer, checked under SpecSizer            *)
(***************************************************************************)

\* C13: calculate_position_size on a strategy whose max_loss is 0 or missing
\* returns the zero-size result (recommended_size, capital_at_risk, num_lots
\* and risk_pct all 0) with the warning 'Cannot size: max loss is zero', for
\* every method and every other argument; no other call returns num_lots = 0.
C13_ZeroMaxLossZeroSize ==
    sizing.op = "calculate_position_size"
        => LET zero == Get(sizing.strategy, "max_loss", Num(0)) = Num(0)
               r == sizing.result
           IN  /\ zero => /\ r.raised = "none"
                          /\ r.recommended_size = 0
                          /\ r.capital_at_risk = 0
                          /\ r.num_lots = 0
                          /\ r.risk_pct = 0
                          /\ r.method = sizing.method
                          /\ r.warnings = <<"Cannot size: max loss is zero">>
               /\ (~zero /\ r.raised = "none") => r.num_lots >= 1

\* Kelly sizing of a strategy without a max_loss and with an unlimited
\* max_profit, which could not be divided.
C13_Witness ==
    /\ sizing.op = "calculate_position_size"
    /\ sizing.strategy = ("max_profit" :> Unlimited)
    /\ sizing.method = "kelly"
    /\ sizing.avg_rr = NoneVal
    /\ sizing.result.num_lots = 0
    /\ sizing.result.kelly_detail = NoneVal

\* C19: for avg_rr > 0, kelly_fraction returns recommended_fraction =
\* min(max(0, (p*b - (1-p))/b) * safety_factor * u, max_risk_cap) with p the
\* win rate clamped to [0.01, 0.99], b = avg_rr and u = sample_size/200 below
\* 50 samples, else min(1, sample_size/100); so 0 <= recommended_fraction <=
\* max_risk_cap, and capital_at_risk = account_size * recommended_fraction.
C19_KellyFormula ==
    (sizing.op = "kelly_fraction" /\ FLess(FInt(0), sizing.avg_rr))
        => LET p == FMax(Frac(1, 100), FMin(sizing.win_rate, Frac(99, 100)))
               b == sizing.avg_rr
               raw == FDiv(FSub(FMul(p, b), FSub(FInt(1), p)), b)
               floored == IF FLess(raw, FInt(0)) THEN FInt(0) ELSE raw
               u == IF sizing.sample_size < 50 THEN Frac(sizing.sample_size, 200)
                    ELSE IF sizing.sample_size >= 100 THEN FInt(1)
                    ELSE Frac(sizing.sample_size, 100)
               uncapped == FMul(FMul(floored, sizing.safety_factor), u)
               expected == IF FLess(sizer.max_risk_pct, uncapped)
                           THEN sizer.max_risk_pct ELSE uncapped
               r == sizing.result
           IN  /\ r.recommended_fraction = expected
               /\ FLeq(FInt(0), r.recommended_fraction)
               /\ FLeq(r.recommended_fraction, sizer.max_risk_pct)
               /\ r.capital_at_risk
                     = FMul(FInt(sizer.account_size), r.recommended_fraction)

\* Full Kelly of 0.325 on a full sample, cut to the 2% cap: 2000 of 100000.
C19_Witness ==
    /\ sizing.op = "kelly_fraction"
    /\ sizer.max_risk_pct = Frac(2, 100)
    /\ sizing.sample_size = 100
    /\ FLess(FInt(0), sizing.avg_rr)
    /\ sizing.result.full_kelly = Frac(13, 40)
    /\ sizing.result.recommended_fraction = Frac(1, 50)
    /\ sizing.result.capital_at_risk = FInt(2000)

\* C20: the risk fraction volatility_adjusted_size returns never exceeds the
\* sizer's max risk cap, for every base_risk and every current and baseline
\* volatility, the degenerate current_volatility <= 0 or baseline_volatility
\* <= 0 included; for positive volatilities it is
\* min((base_risk/100) * clamp(baseline/current, 0.5, 1.5), cap).
C20_VolatilitySizeWithinCap ==
    sizing.op = "volatility_adjusted_size"
        => /\ FLeq(sizing.result, sizer.max_risk_pct)
           /\ (/\ FLess(FInt(0), sizing.current_volatility)
               /\ FLess(FInt(0), sizing.baseline_volatility))
                 => LET ratio == FDiv(sizing.baseline_volatility,
                                      sizing.current_volatility)
                        clamped == FMax(Frac(1, 2), FMin(ratio, Frac(3, 2)))
                    IN  sizing.result
                           = FMin(FMul(FDiv(sizing.base_risk, FInt(100)), clamped),
                                  sizer.max_risk_pct)

(***************************************************************************)
(* Further properties of DecisionEngine, checked under SpecDecision        *)
(***************************************************************************)

\* C14: no public DecisionEngine operation (compute_vol_edge,
\* compute_expected_value, compute_trade_score, generate_trade_decision,
\* validate_with_directional_signal) lets an exception escape, whatever its
\* input; and the error result of generate_trade_decision has
\* trade_allowed = False.
C14_NoExceptionEscapes ==
    decision.op /= "none"
        => /\ ~Escaped(decision.result)
           /\ (/\ decision.op = "generate_trade_decision"
               /\ NoneVal \in {decision.vol_edge, decision.ev_metrics,
                               decision.trade_score})
                 => ~decision.result.trade_allowed

\* C15: on a long-format chain (Strike, Option_Type, IV and no IV_CE / IV_PE
\* column) with a spot available and non-zero IVs on the nearest CE and PE
\* rows, compute_vol_edge returns a result without an error, whose
\* vol_edge_score is clip((atm_iv - realized) / realized, -1, 1) with atm_iv
\* the average of the two IVs and realized the annualized historical
\* volatility, or 0.18 without enough history.
C15_LongFormatVolEdge ==
    (/\ decision.op = "compute_vol_edge"
     /\ decision.option_df /= NoneVal
     /\ {"Strike", "Option_Type", "IV"} \subseteq decision.option_df.columns
     /\ "IV_CE" \notin decision.option_df.columns
     /\ "IV_PE" \notin decision.option_df.columns
     /\ Len(decision.option_df.rows) > 0
     /\ \/ decision.spot_price /= NoneVal
        \/ "Spot_Price" \in decision.option_df.columns
     /\ \/ decision.historical_df = NoneVal
        \/ "Close" \in decision.historical_df.columns)
        => LET spot == IF decision.spot_price /= NoneVal THEN decision.spot_price.v
                       ELSE decision.option_df.rows[1]["Spot_Price"]
               ce == RowsOfType(decision.option_df.rows, "CE")
               pe == RowsOfType(decision.option_df.rows, "PE")
           IN  (/\ Len(ce) > 0
                /\ Len(pe) > 0
                /\ ce[IdxMin(ce, spot)]["IV"].n /= 0
                /\ pe[IdxMin(pe, spot)]["IV"].n /= 0)
                  => LET atm_iv == FDiv(FAdd(ce[IdxMin(ce, spot)]["IV"],
                                             pe[IdxMin(pe, spot)]["IV"]), FInt(2))
                         realized ==
                             IF /\ decision.historical_df /= NoneVal
                                /\ decision.historical_df.len > 5
                             THEN decision.historical_df.annualized
                             ELSE Frac(18, 100)
                         edge == FDiv(FSub(atm_iv, realized), realized)
                         clipped == IF FLess(edge, FInt(-1)) THEN FInt(-1)
                                    ELSE IF FLess(FInt(1), edge) THEN FInt(1)
                                    ELSE edge
                     IN  /\ "error" \notin DOMAIN decision.result
                         /\ decision.result.vol_edge_score
                               = RoundHalfEven(1000 * clipped.n, clipped.d)

\* C18: compute_vol_edge tries the three IV formats in the order IV_CE/IV_PE,
\* Option_Type + IV, IV_Call/IV_Put, and the first that yields a non-zero ATM
\* IV wins; a format whose columns are present but give no usable ATM IV does
\* not stop the later ones, so 'No IV Data Available' is returned only when
\* all three fail.
C18_LowerFormatsStillTried ==
    (/\ decision.op = "compute_vol_edge"
     /\ decision.option_df /= NoneVal
     /\ decision.result.interpretation
           = "No IV Data Available - Using Default Analysis")
        => LET df == decision.option_df
               spot == IF decision.spot_price /= NoneVal THEN decision.spot_price.v
                       ELSE df.rows[1]["Spot_Price"]
               nonzero(rows, column) ==
                   /\ Len(rows) > 0
                   /\ column \in df.columns
                   /\ rows[IdxMin(rows, spot)][column].n /= 0
               pivoted == /\ {"IV_CE", "IV_PE"} \subseteq df.columns
                          /\ nonzero(df.rows, "IV_CE") \/ nonzero(df.rows, "IV_PE")
               long == /\ {"Option_Type", "IV"} \subseteq df.columns
                       /\ \/ nonzero(RowsOfType(df.rows, "CE"), "IV")
                          \/ nonzero(RowsOfType(df.rows, "PE"), "IV")
               alternate == nonzero(df.rows, "IV_Call") \/ nonzero(df.rows, "IV_Put")
           IN  ~pivoted /\ ~long /\ ~alternate

(***************************************************************************)
(* Further properties of Strategy, checked under SpecStrategy              *)
(***************************************************************************)

\* C22: for a strategy that is a single uncovered SELL leg (a naked short call
\* or a naked short put) estimate_margin returns 0.20 * spot * quantity *
\* lot_size; for the defined-risk reference structure (an iron condor) it
\* returns |max_loss|, 240 per unit of lot size (12000 for a lot of 50).
C22_NakedShortMargin ==
    /\ (/\ Len(strat.legs) = 1
        /\ strat.legs[1].position = "SELL"
        /\ OptionLeg__post_init__(strat.legs[1]))
          => estimate_margin(strat)
                = 20 * strat.spot_price * strat.legs[1].quantity * strat.lot_size
    /\ IsReferenceStructure(strat)
          => estimate_margin(strat) = 100 * 240 * strat.lot_size

(***************************************************************************)
(* Trade score and risk flags, checked under SpecDecision                  *)
(***************************************************************************)

C27_OverrideNeverDecides ==
    (/\ decision.op = "generate_trade_decision"
     /\ NoneVal \notin {decision.vol_edge, decision.ev_metrics,
                        decision.trade_score})
        => LET r == decision.result
               before == /\ Get(decision.ev_metrics, "expected_value", 0) > 0
                         /\ Get(decision.trade_score, "trade_score", 50)
                               >= engine.min_trade_score
                         /\ "High risk of ruin"
                               \notin {r.risk_flags[i] : i \in DOMAIN r.risk_flags}
               n == Len(r.reasoning)
               ruin == {"high risk of ruin", "acceptable risk of ruin"}
               multiple == "multiple risk factors present"
           IN  /\ r.trade_allowed = before
               /\ Len(r.risk_flags) >= 3 => ~before
               /\ Len(r.risk_flags) <= 5
               /\ n \in 4..6
               /\ r.reasoning[1] \in {"vol edge", "neutral volatility"}
               /\ r.reasoning[2]
                     \in {"positive expected value", "negative expected value"}
               /\ r.reasoning[3] \in {"good risk-reward", "low risk-reward"}
               /\ r.reasoning[4] \in {"trade score", "trade score too low"}
               /\ n = 5 => r.reasoning[5] \in ruin \cup {multiple}
               /\ n = 6 => r.reasoning[5] \in ruin /\ r.reasoning[6] = multiple
               /\ (multiple \in {r.reasoning[i] : i \in DOMAIN r.reasoning})
                     <=> Len(r.risk_flags) >= 3

\* All five flags at once: the override adds its line to a refusal that
\* three checks had already made.
C27_Witness ==
    /\ decision.op = "generate_trade_decision"
    /\ NoneVal \notin {decision.vol_edge, decision.ev_metrics, decision.trade_score}
    /\ Len(decision.result.risk_flags) = 5
    /\ Len(decision.result.reasoning) = 6
    /\ ~decision.result.trade_allowed

(***************************************************************************)
(* The one-lot floor of calculate_position_size, checked under SpecSizer   *)
(***************************************************************************)

\* The warning of line 285 is among the warnings of the result.
RiskExceedsWarned ==
    "Risk exceeds max" \in {sizing.result.warnings[i] : i \in DOMAIN sizing.result.warnings}

\* One lot of the strategy loses more than max_risk_pct * account_size.
OneLotOverCap ==
    FLess(FMul(sizer.max_risk_pct, FInt(sizer.account_size)),
          FInt(Abs(Get(sizing.strategy, "max_loss", Num(0)).v)))

\* A call of calculate_position_size that returned, on a max_loss other than 0.
SizedCall ==
    /\ sizing.op = "calculate_position_size"
    /\ sizing.result.raised = "none"
    /\ Get(sizing.strategy, "max_loss", Num(0)) /= Num(0)

C26_WinRateClamped ==
    simulation.op = "quick_risk_assessment"
        => simulation.result
              = quick_risk_assessment(
                    FMax(Frac(1, 100), FMin(simulation.win_rate, Frac(99, 100))),
                    simulation.avg_rr, simulation.risk_per_trade)

\* C30: quick_risk_assessment reports is_profitable = False, with the
\* recommendation 'Negative expectancy - DO NOT TRADE', exactly when
\* p*b - (1 - p) <= 0; then, and whenever avg_rr <= 0, kelly_fraction is 0 but
\* recommended_risk is 0.01; when the Kelly fraction is positive,
\* recommended_risk is min(risk_per_trade, 0.25 * kelly), rounded to four
\* decimals.
C30_NegativeExpectancy ==
    simulation.op = "quick_risk_assessment"
        => LET p == simulation.win_rate
               b == simulation.avg_rr
               edge == FSub(FMul(p, b), FSub(FInt(1), p))
               negative == FLeq(edge, FInt(0))
               r == simulation.result
           IN  /\ r.is_profitable = ~negative
               /\ (r.recommendation = "Negative expectancy - DO NOT TRADE")
                     = negative
               /\ (negative \/ FLeq(b, FInt(0)))
                     => r.kelly_fraction = 0 /\ r.recommended_risk = 100
               /\ (~negative /\ FLess(FInt(0), b))
                     => LET quarter == FMul(FDiv(edge, b), Frac(1, 4))
                            least == IF FLess(quarter, simulation.risk_per_trade)
                                     THEN quarter ELSE simulation.risk_per_trade
                        IN  r.recommended_risk
                               = RoundHalfEven(10000 * least.n, least.d)

\* Break-even: a win rate of 0.5 at 1:1 is not profitable, its Kelly fraction
\* is 0, and the recommended risk is the 1% fallback.
C30_Witness ==
    /\ simulation.op = "quick_risk_assessment"
    /\ simulation.win_rate = Frac(1, 2)
    /\ simulation.avg_rr = FInt(1)
    /\ ~simulation.result.is_profitable
    /\ simulation.result.ev_per_trade = 0
    /\ simulation.result.recommended_risk = 100

(***************************************************************************)
(* Drawdowns and positivity of the equity paths, checked under SpecRisk    *)
(***************************************************************************)

\* C21: every path's max drawdown is <= 0, and worst_drawdown_pct is the
\* most severe of the per-path max drawdowns, so that
\* worst_drawdown_pct <= avg_max_drawdown_pct <= 0.
C21_WorstDrawdownMostSevere ==
    (/\ simulation.op = "simulate_equity_paths"
     /\ simulation.result.starting_capital > 0)
        => LET r == simulation.result
               max_drawdowns == _calculate_drawdowns(r.equity_paths, r.num_trades + 1)
           IN  /\ \A i \in DOMAIN max_drawdowns : FLeq(max_drawdowns[i], FInt(0))
               /\ r.worst_drawdown_pct <= r.avg_max_drawdown_pct
               /\ r.avg_max_drawdown_pct <= 0

\* C29: every entry of every equity path is strictly positive, for every
\* argument value (win_rate, avg_rr and risk_per_trade are clamped, so each
\* multiplier is at least 0.9), and the running maximum that divides the
\* drawdowns is never zero.
C29_EquityStrictlyPositive ==
    simulation.op = "simulate_equity_paths"
        => LET r == simulation.result
           IN  /\ \A i \in DOMAIN r.equity_paths : \A t \in DOMAIN r.equity_paths[i] :
                     FLess(FInt(0), r.equity_paths[i][t])
               /\ NaN \notin {r.avg_max_drawdown_pct, r.worst_drawdown_pct}

(***************************************************************************)
(* The stored simulation across calls, checked under SpecSession           *)
(***************************************************************************)

\* The equity paths of the last simulation a stress_test call ran, from the
\* call's arguments and draws.
LastScenarioPaths(call) ==
    LET scenarios == ScenariosOf(call.stress_scenarios)
        last == Len(scenarios)
        win_rate == FMax(Frac(5, 100),
                         FMin(FAdd(call.base_win_rate, scenarios[last][2]),
                              Frac(95, 100)))
    IN  simulate_equity_paths(win_rate, call.avg_rr, Frac(2, 100), StressSims,
                              StressTrades, 100000,
                              call.random_outcomes[last])[1].equity_paths

\* The call before this step ran a simulation, directly or as a scenario.
SimulatedBefore ==
    \/ simulation.op = "simulate_equity_paths"
    \/ /\ simulation.op = "stress_test"
       /\ ScenariosOf(simulation.stress_scenarios) /= <<>>

\* The equity paths of the most recent simulate_equity_paths call.
MostRecentPaths ==
    IF simulation.op = "simulate_equity_paths" THEN simulation.result.equity_paths
    ELSE LastScenarioPaths(simulation)

\* C23: get_equity_percentiles() without equity_paths fails with
\* ValueError('No simulation run yet') if no simulation has been run, and
\* otherwise works on the equity paths of the most recent
\* simulate_equity_paths call; with equity_paths given it is a function of
\* that argument alone, which neither reads nor changes last_simulation, and
\* it returns one row per column of the matrix.
C23_PercentilesOfLastSimulation ==
    [][(/\ simulation'.op = "get_equity_percentiles"
        /\ simulation.op /= "get_equity_percentiles")
          => LET call == simulation'
                 rows == call.result
             IN  /\ last_simulation' = last_simulation
                 /\ (call.equity_paths = NoneVal /\ simulation.op = "none")
                       => rows = [raised |-> "ValueError"]
                 /\ (call.equity_paths = NoneVal /\ SimulatedBefore)
                       => /\ rows = get_equity_percentiles(
                                        NoneVal, Some(MostRecentPaths),
                                        call.percentiles)
                          /\ DOMAIN rows = 1..Len(MostRecentPaths[1])
                 /\ call.equity_paths /= NoneVal
                       => /\ rows = get_equity_percentiles(
                                        NoneVal, call.equity_paths,
                                        call.percentiles)
                          /\ DOMAIN rows = 1..Len(call.equity_paths.value[1])
                          /\ \A t \in DOMAIN rows : rows[t].trade = t - 1]_vars

\* Percentiles without an argument after a simulation of two trades: three
\* rows, the first one the starting capital in every band.
C23_Witness ==
    /\ simulation.op = "get_equity_percentiles"
    /\ simulation.equity_paths = NoneVal
    /\ simulation.percentiles = NoneVal
    /\ last_simulation /= NoneVal
    /\ last_simulation.params.num_trades = 2
    /\ Len(simulation.result) = 3
    /\ simulation.result[1].p[50] = FInt(100000)

\* C24: stress_test is not free of side effects: each simulate_equity_paths
\* call it makes replaces last_simulation, so after a simulation A and a
\* stress_test, get_equity_percentiles() without an argument reports the last
\* scenario run (StressSims paths of StressTrades + 1 columns, starting
\* capital 100000, risk 0.02 per trade) and not simulation A.
C24_StressTestReplacesLastSimulation ==
    [][/\ (/\ simulation'.op = "stress_test"
           /\ simulation.op /= "stress_test"
           /\ ScenariosOf(simulation'.stress_scenarios) /= <<>>)
             => LET paths == LastScenarioPaths(simulation')
                    params == last_simulation'.params
                IN  /\ last_simulation'.equity_paths = paths
                    /\ Len(paths) = StressSims
                    /\ \A i \in 1..StressSims : Len(paths[i]) = StressTrades + 1
                    /\ params.num_simulations = StressSims
                    /\ params.num_trades = StressTrades
                    /\ params.starting_capital = 100000
                    /\ params.risk_per_trade = Frac(2, 100)
       /\ (/\ simulation.op = "stress_test"
           /\ ScenariosOf(simulation.stress_scenarios) /= <<>>
           /\ simulation'.op = "get_equity_percentiles"
           /\ simulation'.equity_paths = NoneVal)
             => /\ Len(simulation'.result) = StressTrades + 1
                /\ \A t \in 1..(StressTrades + 1) :
                      \A q \in DOMAIN simulation'.result[t].p :
                         simulation'.result[t].p[q]
                            = np_percentile(
                                  [i \in 1..StressSims |->
                                      LastScenarioPaths(simulation)[i][t]], q)]_vars

\* Percentiles without an argument over what the worst_case scenario (win
\* rate 0.35) left behind.
C24_Witness ==
    /\ simulation.op = "get_equity_percentiles"
    /\ simulation.equity_paths = NoneVal
    /\ last_simulation /= NoneVal
    /\ last_simulation.params.win_rate = Frac(35, 100)
    /\ last_simulation.params.num_simulations = StressSims
    /\ Len(simulation.result) = StressTrades + 1

====
